---- MODULE Spec2Model ----
(***************************************************************************)
(* Knowledge-tracing core of the exam application: the Bayesian Knowledge *)
(* Tracing model of src/models/bkt_model.py (class BKTModel).              *)
(*                                                                         *)
(* Python floats are modelled as fixed-point numbers: an integer n stands  *)
(* for the value n / SCALE, and every float operation rounds its exact     *)
(* result to the nearest representable value, as IEEE arithmetic does      *)
(* (with 4 decimal digits instead of 53 binary ones).                      *)
(***************************************************************************)
EXTENDS Integers, Sequences, FiniteSets, TLC

(* ------------------------------ bounds -------------------------------- *)

\* longest attempt sequence of a single-question history
MaxLen == 6
\* longest attempt sequence in a history of several questions, whose
\* records may lack the correctness flag
MaxShort == 2
\* longest attempt sequence handed to update_question_difficulty
MaxDiffLen == 6

\* question ids: str(i + 1), as the callers build them
QIds == {"1", "2"}

(* ------------------------- float arithmetic --------------------------- *)

\* resolution of the float model: the representable values are n / SCALE
SCALE == 10000

\* n / d rounded to the nearest integer (n >= 0, d > 0)
Round(n, d) == (2 * n + d) \div (2 * d)

\* the float literal n/d, e.g. 0.1 = Dec(1, 10)
Dec(n, d) == Round(n * SCALE, d)

One == SCALE

\* float * float
FMul(a, b) == Round(a * b, SCALE)

\* float / float (b # 0: Python raises ZeroDivisionError otherwise)
FDiv(a, b) == Round(a * SCALE, b)

\* int / int, Python's true division, giving a float
IntDiv(a, b) == Round(a * SCALE, b)

(* ------------------------------ state --------------------------------- *)

VARIABLES
    p_L0, p_T, p_G, p_S,    \* BKTModel's four parameters
    question_difficulty,    \* BKTModel.question_difficulty: q_id -> float
    pc,                     \* position of the running calculate_mastery call
    answer_history,         \* its argument: q_id -> sequence of records
    todo,                   \* keys of answer_history the outer loop has not reached
    q_id,                   \* key of the current outer iteration
    correct_count,          \* locals of the current iteration
    total_count,
    p_mastery,
    ans_idx,                \* position of the inner loop in answers, 1-based
    mastery,                \* local dict being built
    result,                 \* value returned by the last call
    error                   \* exception raised by the last operation, or "none"

VARIABLES
    cls_pc,                 \* position of the classification at submission
    cls_mastery,            \* the mastery mapping it classifies
    mastered_questions      \* submit_answers' set of mastered question indices

clsVars == <<cls_pc, cls_mastery, mastered_questions>>

VARIABLES
    decay_rate,             \* ForgettingCurve.decay_rate
    review_intervals,       \* ForgettingCurve.review_intervals, in days
    clock,                  \* the wall clock datetime.now() reads, in ticks
    review_history,         \* the caller's dict question_id -> entry
    reviews,                \* per question: the update_review_history calls made,
                            \* how many with is_correct, and the clock reading
                            \* its last get_next_review_time call took
    fc_call                 \* the last call of a read-only operation and its result

fcVars == <<decay_rate, review_intervals, clock, review_history, reviews, fc_call>>

VARIABLES
    rec_pc,                 \* "idle", "start" or "done": the position of the call
    rec_entry,              \* which generate_recommendation is called
    total_questions,        \* len(df), or the argument total_questions
    num_questions,          \* the argument num_questions
    new_ratio,              \* the argument new_ratio, or the method's 0.6
    answer_files,           \* user_answers of the files in answer_json_paths
    history_file,           \* 'answers' of the file at history_path, or NoFile
    user_history,           \* the dict the selection reads
    question_order          \* the list returned or written

recVars == <<rec_pc, rec_entry, total_questions, num_questions, new_ratio,
             answer_files, history_file, user_history, question_order>>

VARIABLES
    score_pc,               \* "idle", "start" or "done": the position of the call
    score_mastery,          \* the argument mastery of BKTModel.generate_recommendation
    score_order,            \* the order in which that dict holds its keys
    score_num,              \* its argument num_questions
    recommendation_scores,  \* its local dict q_id -> score
    recommendation,         \* the list it returns
    difficulty_arg          \* the argument of the last update_question_difficulty

scoreVars == <<score_pc, score_mastery, score_order, score_num,
               recommendation_scores, recommendation, difficulty_arg>>

VARIABLES
    upd_pc,                 \* "idle", "downloading" or "ended"
    release_assets,         \* names of the assets of the latest release
    patch_file,             \* UpdateChecker.patch_file
    setup_file,             \* UpdateChecker.setup_file
    download_thread,        \* the running DownloadThread: what it downloads
    events                  \* downloads started, thread outcomes, signals emitted

updVars == <<upd_pc, release_assets, patch_file, setup_file, download_thread, events>>

VARIABLES
    question_stats,         \* data/models/question_stats.json: real_idx -> counters
    history_files,          \* data/recommendation/history, oldest first
    last_file               \* the file of the latest process_answer_file call

statVars == <<question_stats, history_files, last_file>>

VARIABLES
    questions,              \* QuestionSystem.questions: the answer of each
    user_answers,           \* QuestionSystem.user_answers: index -> answer
    viewed_answers          \* QuestionSystem.viewed_answers

subVars == <<questions, user_answers, viewed_answers>>

VARIABLES
    prog_pc,                \* position of MainWindow._update_progress
    prog_mastery,           \* the mastery it computes
    done_indices,           \* its sets of question numbers
    mastered_indices,
    unmastered_indices,
    undone_indices,
    progress                \* MainWindow.progress

progVars == <<prog_pc, prog_mastery, done_indices, mastered_indices,
              unmastered_indices, undone_indices, progress>>

VARIABLES
    qp_pc,                  \* position of QuestionProcessor.generate_recommendation
    qp_answers,             \* its argument answer_history
    qp_reviews,             \* its argument review_history
    qp_num,                 \* its argument num_questions
    question_clusters,      \* QuestionProcessor.question_clusters
    question_features,      \* the keys of QuestionProcessor.question_features
    qp_candidates,          \* recommended_questions before the padding
    qp_result               \* the list it returns

qpVars == <<qp_pc, qp_answers, qp_reviews, qp_num, question_clusters,
            question_features, qp_candidates, qp_result>>

\* the state of the application components
appVars == <<statVars, subVars, progVars, qpVars>>

\* the state of the components other than BKTModel
otherVars == <<clsVars, fcVars, recVars, scoreVars, updVars, appVars>>

\* the state a component leaves alone: everything but its own
exceptCls == <<fcVars, recVars, scoreVars, updVars, appVars>>
exceptFC == <<clsVars, recVars, scoreVars, updVars, appVars>>
exceptRec == <<clsVars, fcVars, scoreVars, updVars, appVars>>
exceptScore == <<clsVars, fcVars, recVars, updVars, appVars>>
exceptUpd == <<clsVars, fcVars, recVars, scoreVars, appVars>>
exceptStat == <<clsVars, fcVars, recVars, scoreVars, updVars, subVars, progVars, qpVars>>
exceptProg == <<clsVars, fcVars, recVars, scoreVars, updVars, statVars, subVars, qpVars>>
exceptQP == <<clsVars, fcVars, recVars, scoreVars, updVars, statVars, subVars, progVars>>

vars == <<p_L0, p_T, p_G, p_S, question_difficulty, pc, answer_history, todo,
          q_id, correct_count, total_count, p_mastery, ans_idx, mastery,
          result, error, otherVars>>

params == <<p_L0, p_T, p_G, p_S>>

locals == <<q_id, correct_count, total_count, p_mastery, ans_idx>>

bktVars == <<params, question_difficulty, pc, answer_history, todo, mastery,
             result, error, locals>>

EmptyDict == [q \in {} |-> 0]

\* an attempt record as the callers build it, and one lacking 'is_correct'
Rec(b) == [is_correct |-> b, timestamp |-> 0]
Malformed == [timestamp |-> 0]

WellFormedSeqs(n) == UNION {[1..k -> {Rec(TRUE), Rec(FALSE)}] : k \in 0..n}

ShortSeqs == UNION {[1..k -> {Rec(TRUE), Rec(FALSE), Malformed}] : k \in 0..MaxShort}

\* k correct attempts followed by n - k incorrect ones
Block(n, k) == [j \in 1..n |-> Rec(j <= k)]

DiffSeqs == {Block(n, k) : n \in 0..MaxDiffLen, k \in {0, 1, MaxDiffLen}} \cup {<<Malformed>>}

\* the histories handed to calculate_mastery
MasteryInputs ==
    {[q \in {"1"} |-> s] : s \in WellFormedSeqs(MaxLen)}
    \cup UNION {[K -> ShortSeqs] : K \in SUBSET QIds}

\* the histories handed to update_question_difficulty
DifficultyInputs == UNION {[K -> DiffSeqs] : K \in SUBSET QIds}

(* ------------------- mastery classification inputs -------------------- *)

\* most attempts of a classified MasteryState
MaxAttempts == 3

\* MasteryStates around the thresholds of the classification
ClsStates ==
    [mastery_probability : {Dec(65, 100), Dec(7, 10), Dec(75, 100)},
     correct_rate : {Dec(6, 10), Dec(65, 100)},
     attempt_count : 0..MaxAttempts]

\* before any classification
InitCls ==
    /\ cls_pc = "start"
    /\ cls_mastery \in UNION {[K -> ClsStates] : K \in SUBSET QIds}
    /\ mastered_questions = {}

\* the classification has nothing to classify
InitClsIdle ==
    /\ cls_pc = "start"
    /\ cls_mastery = EmptyDict
    /\ mastered_questions = {}

(* ------------------------- BKTModel.__init__ -------------------------- *)

InitBKT ==
    /\ p_L0 = Dec(1, 10)
    /\ p_T = Dec(3, 10)
    /\ p_G = Dec(1, 10)
    /\ p_S = Dec(1, 10)
    /\ question_difficulty = EmptyDict
    /\ pc = "idle"
    /\ answer_history = EmptyDict
    /\ todo = {}
    /\ q_id = "none"
    /\ correct_count = 0
    /\ total_count = 0
    /\ p_mastery = 0
    /\ ans_idx = 0
    /\ mastery = EmptyDict
    /\ result = EmptyDict
    /\ error = "none"

(* ----------------------- ForgettingCurve.__init__ --------------------- *)

\* None, a datetime and the string isoformat() makes of a datetime
None == [kind |-> "None"]
DateTime(t) == [kind |-> "datetime", t |-> t]
IsoFormat(dt) == [kind |-> "str", t |-> dt.t]
FromIsoFormat(str) == [kind |-> "datetime", t |-> str.t]

NoCall == [op |-> "none"]

InitFC ==
    /\ decay_rate = Dec(1, 10)
    /\ review_intervals = <<1, 2, 4, 7, 15, 30>>
    /\ clock = 0
    /\ review_history = EmptyDict
    /\ reviews = EmptyDict
    /\ fc_call = NoCall

(* ------------------- the inputs of generate_recommendation ------------- *)

\* largest question bank
MaxTotal == 5
\* largest num_questions asked for
MaxNum == 4

\* no file at history_path, and a file with the given 'answers'
NoFile == [exists |-> FALSE]
HistoryFile(answers) == [exists |-> TRUE, answers |-> answers]

\* user_answers of one answer file: for some question indices, whether the
\* answer given differs from the bank's
AnswerFiles ==
    UNION {[K -> BOOLEAN] : K \in SUBSET (0..(MaxTotal - 1))}

\* the files of no session, of one session, of a session taken twice
AnswerFileSeqs ==
    {<<>>} \cup {<<f>> : f \in AnswerFiles} \cup {<<f, f>> : f \in AnswerFiles}

\* the entries a history file holds; each lacks two of the three fields
FileStats == {[wrong_count |-> 1], [view_answer_count |-> 1], [total_time |-> 1]}

HistoryFiles ==
    {NoFile} \cup
    {HistoryFile(a) : a \in UNION {[K -> FileStats] : K \in SUBSET (0..(MaxTotal - 1))}}

InitRec ==
    /\ rec_pc = "start"
    /\ rec_entry \in {"Recommender.generate_recommendation", "generate_recommendation"}
    /\ total_questions \in 0..MaxTotal
    /\ num_questions \in 0..MaxNum
    /\ new_ratio = Dec(6, 10)
    /\ IF rec_entry = "generate_recommendation"
       THEN answer_files = <<>> /\ history_file \in HistoryFiles
       ELSE answer_files \in AnswerFileSeqs /\ history_file = NoFile
    /\ user_history = EmptyDict
    /\ question_order = <<>>

InitRecIdle ==
    /\ rec_pc = "idle"
    /\ rec_entry = "generate_recommendation"
    /\ total_questions = 0
    /\ num_questions = 0
    /\ new_ratio = Dec(6, 10)
    /\ answer_files = <<>>
    /\ history_file = NoFile
    /\ user_history = EmptyDict
    /\ question_order = <<>>

(* ------------- the inputs of BKTModel.generate_recommendation ---------- *)

\* question ids a mastery mapping may hold
ScoreIds == QIds \cup {"3"}

\* MasteryStates of well and badly known questions, tried once or often
ScoreStates ==
    [mastery_probability : {Dec(2, 10), Dec(9, 10)},
     correct_rate : {Dec(5, 10)},
     attempt_count : {1, MaxDiffLen}]

InitScore ==
    /\ score_pc = "start"
    /\ score_mastery \in UNION {[K -> ScoreStates] : K \in SUBSET ScoreIds}
    /\ score_order \in {o \in [1..Cardinality(DOMAIN score_mastery) -> DOMAIN score_mastery] :
                           \A a, b \in DOMAIN o : o[a] = o[b] => a = b}
    /\ score_num \in 0..MaxNum
    /\ recommendation_scores = EmptyDict
    /\ recommendation = <<>>
    /\ difficulty_arg = EmptyDict

\* the mastery of questions tried once and badly known
InitScoreFew ==
    /\ score_pc = "start"
    /\ score_mastery \in
          UNION {[K -> {[mastery_probability |-> Dec(2, 10), correct_rate |-> 0,
                         attempt_count |-> 1]}] : K \in SUBSET QIds}
    /\ score_order \in {o \in [1..Cardinality(DOMAIN score_mastery) -> DOMAIN score_mastery] :
                           \A a, b \in DOMAIN o : o[a] = o[b] => a = b}
    /\ score_num \in {0, MaxNum}
    /\ recommendation_scores = EmptyDict
    /\ recommendation = <<>>
    /\ difficulty_arg = EmptyDict

\* the mastery is still to be computed by calculate_mastery
InitScoreChained ==
    /\ score_pc = "start"
    /\ score_mastery = EmptyDict
    /\ score_order = <<>>
    /\ score_num \in 0..MaxNum
    /\ recommendation_scores = EmptyDict
    /\ recommendation = <<>>
    /\ difficulty_arg = EmptyDict

\* a call of either quota-based generate_recommendation without any history
InitRecEmpty ==
    /\ rec_pc = "start"
    /\ rec_entry \in {"Recommender.generate_recommendation", "generate_recommendation"}
    /\ total_questions \in 0..MaxTotal
    /\ num_questions \in 0..MaxNum
    /\ new_ratio = Dec(6, 10)
    /\ answer_files = <<>>
    /\ history_file = NoFile
    /\ user_history = EmptyDict
    /\ question_order = <<>>

InitScoreIdle ==
    /\ score_pc = "idle"
    /\ score_mastery = EmptyDict
    /\ score_order = <<>>
    /\ score_num = 0
    /\ recommendation_scores = EmptyDict
    /\ recommendation = <<>>
    /\ difficulty_arg = EmptyDict

(* ------------------------ UpdateChecker.__init__ ----------------------- *)

\* most assets of a release
MaxAssets == 3

\* asset names: an incremental patch, an installer, anything else
AssetNames == {"update.patch", "setup.exe", "notes.txt"}

\* no asset: None
NoAsset == "None"

InitUpd ==
    /\ upd_pc = "idle"
    /\ release_assets \in UNION {[1..k -> AssetNames] : k \in 0..MaxAssets}
    /\ patch_file = NoAsset
    /\ setup_file = NoAsset
    /\ download_thread = "none"
    /\ events = <<>>

InitUpdIdle ==
    /\ upd_pc = "ended"
    /\ release_assets = <<>>
    /\ patch_file = NoAsset
    /\ setup_file = NoAsset
    /\ download_thread = "none"
    /\ events = <<>>

(* ----------------------- QuestionProcessor.__init__ -------------------- *)

\* the file that stands for "no call yet"
NoAnswerFile == [original_indices |-> <<>>, answers |-> EmptyDict]

\* question_stats.json as _init_directories_and_files creates it: {}
InitStat ==
    /\ question_stats = EmptyDict
    /\ history_files = <<>>
    /\ last_file = NoAnswerFile

\* the answers of the bank as the sheet holds them, and the options
SheetAnswers == {"A", "B "}
Options == {"A", "B"}

\* an exam session about to be submitted
InitSession ==
    /\ questions \in UNION {[1..n -> SheetAnswers] : n \in 0..Cardinality(QIds)}
    /\ user_answers \in UNION {[K -> Options] : K \in SUBSET (0..(Len(questions) - 1))}
    /\ viewed_answers \in SUBSET (0..(Len(questions) - 1))

\* no exam session
InitSessionIdle ==
    /\ questions = <<>>
    /\ user_answers = EmptyDict
    /\ viewed_answers = {}

\* MainWindow.progress before the first _update_progress
NoProgress == [total |-> 0, done |-> 0, undone |-> 0, unmastered |-> 0, mastered |-> 0]

InitProg ==
    /\ prog_pc = "start"
    /\ prog_mastery = EmptyDict
    /\ done_indices = {}
    /\ mastered_indices = {}
    /\ unmastered_indices = {}
    /\ undone_indices = {}
    /\ progress = NoProgress

\* the main window is not shown
InitProgIdle ==
    /\ prog_pc = "idle"
    /\ prog_mastery = EmptyDict
    /\ done_indices = {}
    /\ mastered_indices = {}
    /\ unmastered_indices = {}
    /\ undone_indices = {}
    /\ progress = NoProgress

\* the question ids of the clustering, str(i), in the order of the bank
ClusterIds == <<"0", "1", "2">>

BankIds == {ClusterIds[i] : i \in DOMAIN ClusterIds}

\* the questions with a review history
ReviewedIds == {"0", "1"}

\* the time of the call on the clock of the review times
QPNow == 1

\* a call of generate_recommendation: every question has no attempt, a
\* right one or a wrong one, a review due, later or none, one of two
\* clusters or none; features are extracted for all questions or for none
InitQP ==
    /\ qp_pc = "start"
    /\ qp_answers \in UNION {[K -> {<<Rec(TRUE)>>, <<Rec(FALSE)>>}] : K \in SUBSET BankIds}
    /\ qp_reviews \in UNION {[K -> [next_review_time : {QPNow - 1, QPNow + 1}]] : K \in SUBSET ReviewedIds}
    /\ qp_num \in 0..MaxNum
    /\ question_clusters \in UNION {[K -> 0..1] : K \in SUBSET BankIds}
    /\ question_features \in {{}, BankIds}
    /\ qp_candidates = {}
    /\ qp_result = <<>>

\* no call of it
InitQPIdle ==
    /\ qp_pc = "idle"
    /\ qp_answers = EmptyDict
    /\ qp_reviews = EmptyDict
    /\ qp_num = 0
    /\ question_clusters = EmptyDict
    /\ question_features = {}
    /\ qp_candidates = {}
    /\ qp_result = <<>>

\* the application components at rest
InitAppIdle ==
    /\ InitStat
    /\ InitSessionIdle
    /\ InitProgIdle
    /\ InitQPIdle

Init ==
    /\ InitBKT
    /\ InitClsIdle
    /\ InitFC
    /\ InitRecIdle
    /\ InitScoreIdle
    /\ InitUpdIdle
    /\ InitAppIdle

(* -------------------- BKTModel.calculate_mastery ---------------------- *)

\* variant: ans.get('is_correct'), a missing key reads as falsy
Subscript_get(ans) ==
    [ok |-> TRUE, val |-> IF "is_correct" \in DOMAIN ans THEN ans.is_correct ELSE FALSE]

\* ans['is_correct']: the value, or KeyError when the record has no such key
Subscript(ans) ==
    IF "is_correct" \in DOMAIN ans
    THEN [ok |-> TRUE, val |-> ans.is_correct]
    ELSE [ok |-> FALSE, val |-> FALSE]

\* `if not answers`
SkipQuestion(answers) == Len(answers) = 0

\* variant: `break`, leaving the loop at the first empty sequence
BreakLoop(q) == {}

\* `continue`: the keys left for the loop after skipping q
ContinueLoop(q) == todo \ {q}

\* variant: counts the incorrect attempts
RECURSIVE CountWrong(_, _)
CountWrong(answers, n) ==
    IF n = 0 THEN 0
    ELSE CountWrong(answers, n - 1) + (IF Subscript(answers[n]).val THEN 0 ELSE 1)

\* sum(1 for ans in answers if ans['is_correct']) over the first n records
RECURSIVE CountCorrect(_, _)
CountCorrect(answers, n) ==
    IF n = 0 THEN 0
    ELSE CountCorrect(answers, n - 1) + (IF Subscript(answers[n]).val THEN 1 ELSE 0)

\* whether that sum raises KeyError: some record lacks the key
CountRaises(answers) == \E j \in 1..Len(answers) : ~Subscript(answers[j]).ok

\* variant: the prior is read from the wrong attribute
InitialMastery_pT(q) == p_T

\* variant: the stored difficulty of the question is used as its prior
InitialMastery_difficulty(q) ==
    IF q \in DOMAIN question_difficulty THEN question_difficulty[q] ELSE p_L0

\* p_mastery = self.p_L0
InitialMastery(q) == p_L0

\* p_mastery * (1 - p_S) + (1 - p_mastery) * p_G
CorrectDen(p) == FMul(p, One - p_S) + FMul(One - p, p_G)

\* posterior given an observed correct answer
PosteriorCorrect(p) == FDiv(FMul(p, One - p_S), CorrectDen(p))

\* p_mastery * p_S + (1 - p_mastery) * (1 - p_G)
WrongDen(p) == FMul(p, p_S) + FMul(One - p, One - p_G)

\* variant: the else branch repeats the formula of the if branch
PosteriorWrong_copy(p) == PosteriorCorrect(p)

\* posterior given an observed incorrect answer
PosteriorWrong(p) == FDiv(FMul(p, p_S), WrongDen(p))

\* the denominator of the branch taken for an answer
BranchDen(p, c) == IF c THEN CorrectDen(p) ELSE WrongDen(p)

\* variant: the condition is inverted
Posterior_swapped(p, c) == IF c THEN PosteriorWrong(p) ELSE PosteriorCorrect(p)

\* the branch of `if ans['is_correct']: ... else: ...`
Posterior(p, c) == IF c THEN PosteriorCorrect(p) ELSE PosteriorWrong(p)

\* variant: `=` for `+=`
Learn_assign(p) == FMul(One - p, p_T)

\* variant: the factor (1 - p_mastery) is missing
Learn_noFactor(p) == p + p_T

\* p_mastery += (1 - p_mastery) * p_T, run after either branch
Learn(p) == p + FMul(One - p, p_T)

\* the entry stored for a question
MasteryState(p, cc, tc) ==
    [mastery_probability |-> p, correct_rate |-> IntDiv(cc, tc), attempt_count |-> tc]

ResetLocals ==
    /\ q_id' = "none"
    /\ correct_count' = 0
    /\ total_count' = 0
    /\ p_mastery' = 0
    /\ ans_idx' = 0

Raise(kind) ==
    /\ pc' = "raised"
    /\ error' = kind
    /\ result' = EmptyDict
    /\ mastery' = EmptyDict
    /\ todo' = {}
    /\ ResetLocals

\* the call: mastery = {} and the outer loop starts
CalculateMastery(h) ==
    /\ pc = "idle"
    /\ answer_history' = h
    /\ todo' = DOMAIN h
    /\ mastery' = EmptyDict
    /\ result' = EmptyDict
    /\ error' = "none"
    /\ pc' = "for_q"
    /\ ResetLocals
    /\ UNCHANGED <<params, question_difficulty>>
    /\ UNCHANGED otherVars

\* one iteration head of `for q_id, answers in answer_history.items()`:
\* skip an empty sequence, else count and set the prior
ForQuestion(q) ==
    /\ pc = "for_q"
    /\ q \in todo
    /\ LET answers == answer_history[q] IN
         IF SkipQuestion(answers)
         THEN /\ todo' = ContinueLoop(q)
              /\ UNCHANGED <<pc, mastery, result, error, locals>>
         ELSE IF CountRaises(answers)
         THEN Raise("KeyError")
         ELSE /\ todo' = todo \ {q}
              /\ q_id' = q
              /\ correct_count' = CountCorrect(answers, Len(answers))
              /\ total_count' = Len(answers)
              /\ p_mastery' = InitialMastery(q)
              /\ ans_idx' = 1
              /\ pc' = "for_ans"
              /\ UNCHANGED <<mastery, result, error>>
    /\ UNCHANGED <<params, question_difficulty, answer_history>>
    /\ UNCHANGED otherVars

\* one iteration of `for ans in answers`
ForAnswer ==
    /\ pc = "for_ans"
    /\ ans_idx <= Len(answer_history[q_id])
    /\ LET sub == Subscript(answer_history[q_id][ans_idx]) IN
         IF ~sub.ok
         THEN Raise("KeyError")
         ELSE IF BranchDen(p_mastery, sub.val) = 0
         THEN Raise("ZeroDivisionError")
         ELSE /\ p_mastery' = Learn(Posterior(p_mastery, sub.val))
              /\ ans_idx' = ans_idx + 1
              /\ UNCHANGED <<pc, todo, q_id, correct_count, total_count,
                             mastery, result, error>>
    /\ UNCHANGED <<params, question_difficulty, answer_history>>
    /\ UNCHANGED otherVars

\* mastery[q_id] = {...} after the inner loop
StoreMastery ==
    /\ pc = "for_ans"
    /\ ans_idx > Len(answer_history[q_id])
    /\ IF total_count = 0
       THEN Raise("ZeroDivisionError")
       ELSE /\ mastery' = (q_id :> MasteryState(p_mastery, correct_count, total_count)) @@ mastery
            /\ pc' = "for_q"
            /\ ResetLocals
            /\ UNCHANGED <<todo, result, error>>
    /\ UNCHANGED <<params, question_difficulty, answer_history>>
    /\ UNCHANGED otherVars

\* return mastery
ReturnMastery ==
    /\ pc = "for_q"
    /\ todo = {}
    /\ result' = mastery
    /\ pc' = "returned"
    /\ UNCHANGED <<params, question_difficulty, answer_history, todo, mastery,
                   error, locals>>
    /\ UNCHANGED otherVars

\* the caller is done with the outcome of the call
Finish ==
    /\ pc \in {"returned", "raised"}
    /\ pc' = "idle"
    /\ answer_history' = EmptyDict
    /\ mastery' = EmptyDict
    /\ result' = EmptyDict
    /\ error' = "none"
    /\ todo' = {}
    /\ ResetLocals
    /\ UNCHANGED <<params, question_difficulty>>
    /\ UNCHANGED otherVars

(* ---------------- BKTModel.update_question_difficulty ----------------- *)

\* attempts needed before a difficulty is stored (total_count > 5)
MinAttempts == 5

\* difficulty = 1 - (correct_count / total_count)
Difficulty(answers) ==
    One - IntDiv(CountCorrect(answers, Len(answers)), Len(answers))

\* the loop over the keys in the order `order`, from the dict `d`:
\* the dict after the loop and whether the loop raised KeyError
RECURSIVE DifficultyLoop(_, _, _)
DifficultyLoop(h, order, d) ==
    IF order = <<>> THEN [dict |-> d, err |-> "none"]
    ELSE LET q == Head(order)
             answers == h[q]
         IN IF SkipQuestion(answers)
            THEN DifficultyLoop(h, Tail(order), d)
            ELSE IF CountRaises(answers)
            THEN [dict |-> d, err |-> "KeyError"]
            ELSE IF Len(answers) > MinAttempts
            THEN DifficultyLoop(h, Tail(order), (q :> Difficulty(answers)) @@ d)
            ELSE DifficultyLoop(h, Tail(order), d)

\* the orders in which a dict may hold the keys K
Orders(K) ==
    {o \in [1..Cardinality(K) -> K] : \A a, b \in 1..Cardinality(K) : o[a] = o[b] => a = b}

UpdateQuestionDifficulty(h, order) ==
    /\ pc = "idle"
    /\ LET r == DifficultyLoop(h, order, question_difficulty) IN
         /\ question_difficulty' = r.dict
         /\ error' = r.err
    /\ UNCHANGED <<params, pc, answer_history, todo, mastery, result, locals>>
    /\ UNCHANGED otherVars

(* ------------- QuestionSystem.submit_answers: classification ---------- *)

\* attempts required by the classification at submission
SubmitMinAttempts == 2

\* int(q_id) for the ids the callers build
IntOf(q) == CASE q = "1" -> 1 [] q = "2" -> 2

\* variant: the thresholds are inclusive
IsMasteredAtSubmit_inclusive(m) ==
    /\ m.mastery_probability >= Dec(7, 10)
    /\ m.correct_rate >= Dec(6, 10)
    /\ m.attempt_count >= SubmitMinAttempts

\* bkt_prob > 0.7 and correct_rate > 0.6 and attempt_count >= 2
IsMasteredAtSubmit(m) ==
    /\ m.mastery_probability > Dec(7, 10)
    /\ m.correct_rate > Dec(6, 10)
    /\ m.attempt_count >= SubmitMinAttempts

\* the loop over mastery.items(): mastered_questions.add(int(q_id) - 1)
ClassifyAtSubmit ==
    /\ cls_pc = "start"
    /\ mastered_questions' =
           {IntOf(q) - 1 : q \in {k \in DOMAIN cls_mastery : IsMasteredAtSubmit(cls_mastery[k])}}
    /\ cls_pc' = "done"
    /\ UNCHANGED cls_mastery
    /\ UNCHANGED <<bktVars, exceptCls>>

NextCls == ClassifyAtSubmit

\* submit_answers starts with the mastery calculate_mastery returned
InitSubmit ==
    /\ InitBKT
    /\ InitCls
    /\ InitFC
    /\ InitRecIdle
    /\ InitScoreIdle
    /\ InitUpdIdle
    /\ InitAppIdle

SpecCls == InitSubmit /\ [][NextCls]_vars

(* --------------------------- ForgettingCurve -------------------------- *)

\* clock ticks in a day
TicksPerDay == 2
\* last clock reading
MaxClock == 3
\* update_review_history calls in a run
MaxReviews == 6
\* update_review_history calls in a run that also queries the read-only operations
MaxQueryReviews == 2
\* largest review_count handed to the read-only operations
MaxCount == 7
\* farthest last_review_time, before or after now, handed to
\* calculate_memory_strength, in ticks
MaxSkew == 2

\* timedelta.days of a difference of clock readings: whole days, rounded down
DaysOf(delta) == delta \div TicksPerDay

\* exp(k / 10) for k = -100..10, to the resolution of the floats
ExpTable ==
    <<0, 1, 1, 1, 1, 1, 1, 1, 1, 1, 1, 1, 2, 2, 2, 2, 2, 2, 3, 3, 3, 4, 4, 5, 5,
      6, 6, 7, 7, 8, 9, 10, 11, 12, 14, 15, 17, 18, 20, 22, 25, 27, 30, 33, 37,
      41, 45, 50, 55, 61, 67, 74, 82, 91, 101, 111, 123, 136, 150, 166, 183,
      202, 224, 247, 273, 302, 334, 369, 408, 450, 498, 550, 608, 672, 743,
      821, 907, 1003, 1108, 1225, 1353, 1496, 1653, 1827, 2019, 2231, 2466,
      2725, 3012, 3329, 3679, 4066, 4493, 4966, 5488, 6065, 6703, 7408, 8187,
      9048, 10000, 11052, 12214, 13499, 14918, 16487, 18221, 20138, 22255,
      24596, 27183>>

\* np.exp(x) for x a multiple of 0.1 up to 1.0; it underflows to 0 far below 0
Exp(x) ==
    LET k == x \div Dec(1, 10)
    IN IF k < -100 THEN 0 ELSE ExpTable[k + 101]

\* variant: the review factor is used alone, without the 0.7 + 0.3 * weighting
Strength_factorOnly(base, factor) == FMul(base, factor)

\* base_strength * (0.7 + 0.3 * review_factor)
Strength(base, factor) == FMul(base, Dec(7, 10) + FMul(Dec(3, 10), factor))

\* calculate_memory_strength, with the clock reading `now` its datetime.now() takes
MemoryStrength(last_review_time, review_count, now) ==
    IF last_review_time = None
    THEN 0
    ELSE LET days_passed == DaysOf(now - last_review_time.t)
             base_strength == Exp(-decay_rate * days_passed)
             review_factor == One - Exp(-review_count * Dec(5, 10))
         IN Strength(base_strength, review_factor)

\* variant: a count beyond the table wraps to the first interval
Interval_wrap(review_count) ==
    IF review_count >= Len(review_intervals)
    THEN review_intervals[1]
    ELSE review_intervals[review_count + 1]

\* the interval get_next_review_time picks (the list is indexed from 0)
Interval(review_count) ==
    IF review_count >= Len(review_intervals)
    THEN review_intervals[Len(review_intervals)]
    ELSE review_intervals[review_count + 1]

\* variant: the interval is subtracted
NextReviewTime_minus(review_count, now) ==
    DateTime(now - Interval(review_count) * TicksPerDay)

\* get_next_review_time: datetime.now() + timedelta(days=interval)
NextReviewTime(review_count, now) ==
    DateTime(now + Interval(review_count) * TicksPerDay)

\* the entry made for a question_id not in review_history
FreshEntry ==
    [review_count |-> 0, last_review_time |-> None, next_review_time |-> None,
     memory_strength |-> 0, correct_count |-> 0, total_count |-> 0]

\* variant: a correct review is not counted
CountedCorrect_never(n, is_correct) == n

\* if is_correct: history['correct_count'] += 1
CountedCorrect(n, is_correct) == IF is_correct THEN n + 1 ELSE n

\* variant: the schedule is computed before the count is increased
ScheduleCount_before(review_count) == review_count - 1

\* the count handed to get_next_review_time: history['review_count'], already increased
ScheduleCount(review_count) == review_count

\* the entry after the update; t1, t2, t3 are the three clock readings
UpdatedEntry(history, is_correct, t1, t2, t3) ==
    LET rc == history.review_count + 1
        last == IsoFormat(DateTime(t1))
    IN [review_count |-> rc,
        total_count |-> history.total_count + 1,
        correct_count |-> CountedCorrect(history.correct_count, is_correct),
        last_review_time |-> last,
        next_review_time |-> IsoFormat(NextReviewTime(ScheduleCount(rc), t2)),
        memory_strength |-> MemoryStrength(FromIsoFormat(last), rc, t3)]

\* variant: the dict is rebuilt with only the updated entry
Stored_only(rh, question_id, entry) == (question_id :> entry)

\* review_history[question_id] after the in-place update of its entry
Stored(rh, question_id, entry) == (question_id :> entry) @@ rh

TotalReviews ==
    LET K == DOMAIN reviews
    IN IF K = {} THEN 0
       ELSE IF Cardinality(K) = 1 THEN reviews[CHOOSE q \in K : TRUE].n
       ELSE reviews["1"].n + reviews["2"].n

\* update_review_history(question_id, is_correct, review_history); the clock
\* advances by d2 ticks before get_next_review_time reads it and by d3 more
\* before calculate_memory_strength does
UpdateReviewHistory(question_id, is_correct, d2, d3) ==
    /\ TotalReviews < MaxReviews
    /\ clock + d2 + d3 <= MaxClock
    /\ LET history == IF question_id \in DOMAIN review_history
                      THEN review_history[question_id]
                      ELSE FreshEntry
           old == IF question_id \in DOMAIN reviews
                  THEN reviews[question_id]
                  ELSE [n |-> 0, c |-> 0, at |-> 0]
           entry == UpdatedEntry(history, is_correct, clock, clock + d2, clock + d2 + d3)
       IN /\ review_history' = Stored(review_history, question_id, entry)
          /\ reviews' = (question_id :> [n |-> old.n + 1,
                                         c |-> old.c + (IF is_correct THEN 1 ELSE 0),
                                         at |-> clock + d2]) @@ reviews
    /\ clock' = clock + d2 + d3
    /\ fc_call' = NoCall
    /\ UNCHANGED <<decay_rate, review_intervals>>
    /\ UNCHANGED <<bktVars, exceptFC>>

\* time passes between operations
Tick ==
    /\ clock < MaxClock
    /\ clock' = clock + 1
    /\ fc_call' = NoCall
    /\ UNCHANGED <<decay_rate, review_intervals, review_history, reviews>>
    /\ UNCHANGED <<bktVars, exceptFC>>

\* a call of get_next_review_time(review_count)
GetNextReviewTime(review_count) ==
    /\ fc_call' = IF review_intervals = <<>>
                  THEN [op |-> "get_next_review_time", review_count |-> review_count,
                        now |-> clock, ret |-> None, raised |-> "IndexError"]
                  ELSE [op |-> "get_next_review_time", review_count |-> review_count,
                        now |-> clock, ret |-> NextReviewTime(review_count, clock),
                        raised |-> "none"]
    /\ UNCHANGED <<decay_rate, review_intervals, clock, review_history, reviews>>
    /\ UNCHANGED <<bktVars, exceptFC>>

\* a call of calculate_memory_strength(last_review_time, review_count)
CalculateMemoryStrength(last_review_time, review_count) ==
    /\ fc_call' = [op |-> "calculate_memory_strength",
                   last_review_time |-> last_review_time,
                   review_count |-> review_count, now |-> clock,
                   ret |-> MemoryStrength(last_review_time, review_count, clock)]
    /\ UNCHANGED <<decay_rate, review_intervals, clock, review_history, reviews>>
    /\ UNCHANGED <<bktVars, exceptFC>>

\* the last_review_time values handed to calculate_memory_strength
LastReviewTimes == {None} \cup {DateTime(clock + d) : d \in (-MaxSkew)..MaxSkew}

NextFC ==
    \/ \E q \in QIds, c \in BOOLEAN, d2 \in 0..1, d3 \in 0..1 :
           UpdateReviewHistory(q, c, d2, d3)
    \/ Tick

SpecFC == Init /\ [][NextFC]_vars

NextFCQ ==
    \/ \E q \in QIds, c \in BOOLEAN :
           TotalReviews < MaxQueryReviews /\ UpdateReviewHistory(q, c, 0, 0)
    \/ Tick
    \/ \E rc \in 0..MaxCount : GetNextReviewTime(rc)
    \/ \E last \in LastReviewTimes, rc \in 0..MaxCount : CalculateMemoryStrength(last, rc)

SpecFCQ == Init /\ [][NextFCQ]_vars

(* ----------------------- generate_recommendation ---------------------- *)

\* int(x) of a non-negative float
IntOfFloat(x) == x \div SCALE

\* the elements of a list
Range(s) == {s[k] : k \in 1..Len(s)}

\* the ascending list of a set of indices, as a comprehension over range() gives
RECURSIVE Ascending(_)
Ascending(S) ==
    IF S = {} THEN <<>>
    ELSE LET m == CHOOSE i \in S : \A j \in S : i <= j
         IN <<m>> \o Ascending(S \ {m})

\* s[:k]
Prefix(s, k) ==
    IF k >= 0
    THEN SubSeq(s, 1, IF k <= Len(s) THEN k ELSE Len(s))
    ELSE SubSeq(s, 1, IF Len(s) + k >= 0 THEN Len(s) + k ELSE 0)

\* the entry made for an index not in user_history
ZeroStats == [wrong_count |-> 0, view_answer_count |-> 0, total_time |-> 0]

\* user_history after one more answer file
MergeFile(h, f) ==
    [i \in DOMAIN h \cup DOMAIN f |->
        IF i \in DOMAIN f
        THEN LET old == IF i \in DOMAIN h THEN h[i] ELSE ZeroStats
             IN [old EXCEPT !.wrong_count = @ + (IF f[i] THEN 1 ELSE 0)]
        ELSE h[i]]

\* user_history after the first k answer files
RECURSIVE MergeAnswers(_, _)
MergeAnswers(files, k) ==
    IF k = 0 THEN EmptyDict
    ELSE MergeFile(MergeAnswers(files, k - 1), files[k])

\* v.get(field, 0)
Get(v, field) == IF field \in DOMAIN v THEN v[field] ELSE 0

\* load_user_history
LoadUserHistory(file) ==
    IF ~file.exists THEN EmptyDict
    ELSE [k \in DOMAIN file.answers |->
            [wrong_count |-> Get(file.answers[k], "wrong_count"),
             view_answer_count |-> Get(file.answers[k], "view_answer_count"),
             total_time |-> Get(file.answers[k], "total_time")]]

\* variant: the sort key is wrong_count alone
SortKey_wrongOnly(h, i) == <<-h[i].wrong_count>>

\* the sort key of an attempted question
SortKey(h, i) ==
    <<-h[i].wrong_count, -h[i].view_answer_count, -h[i].total_time>>

\* a < b for tuples of numbers of one length
RECURSIVE TupleLess(_, _)
TupleLess(a, b) ==
    IF a = <<>> THEN FALSE
    ELSE \/ Head(a) < Head(b)
         \/ Head(a) = Head(b) /\ TupleLess(Tail(a), Tail(b))

\* sorted(S, key=...): ascending by key, equal keys in the order of the input
RECURSIVE Sorted(_, _)
Sorted(S, h) ==
    IF S = {} THEN <<>>
    ELSE LET m == CHOOSE i \in S : \A j \in S \ {i} :
                      \/ TupleLess(SortKey(h, i), SortKey(h, j))
                      \/ SortKey(h, i) = SortKey(h, j) /\ i < j
         IN <<m>> \o Sorted(S \ {m}, h)

NewQuestions(n_total, h) == Ascending({i \in 0..(n_total - 1) : i \notin DOMAIN h})

OldQuestionsSorted(n_total, h) == Sorted({i \in 0..(n_total - 1) : i \in DOMAIN h}, h)

NumNew(n, ratio) == IntOfFloat(n * ratio)

\* the sizes random.sample may be asked for and the sets it may return
Samples(new, k) == {S \in SUBSET Range(new) : Cardinality(S) = k}

\* variant: the supplement is not filtered by what is already chosen
Supplement_unfiltered(order, source, n) ==
    IF Len(order) < n
    THEN order \o Prefix(source, n - Len(order))
    ELSE order

\* if len(question_order) < num_questions: append the missing ones of source
Supplement(order, source, n) ==
    IF Len(order) < n
    THEN order \o Prefix(SelectSeq(source, LAMBDA i : i \notin Range(order)),
                         n - Len(order))
    ELSE order

\* the list after the two supplements and the final cut
Completed(shuffled, new, old_sorted, n) ==
    Prefix(Supplement(Supplement(shuffled, old_sorted, n), new, n), n)

\* the lists the selection can return for one outcome of sample and shuffle
Selections(n_total, n, ratio, h) ==
    LET new == NewQuestions(n_total, h)
        old_sorted == OldQuestionsSorted(n_total, h)
        num_new == NumNew(n, ratio)
        num_old == n - num_new
        selected_old == Prefix(old_sorted, num_old)
    IN {Completed(shuffled, new, old_sorted, n) :
           shuffled \in UNION {Orders(S \cup Range(selected_old)) :
                                 S \in Samples(new, IF num_new <= Len(new)
                                                    THEN num_new ELSE Len(new))}}

\* Recommender.generate_recommendation(xlsx_path, answer_json_paths, num_questions)
MethodGenerateRecommendation ==
    /\ rec_pc = "start"
    /\ rec_entry = "Recommender.generate_recommendation"
    /\ LET h == MergeAnswers(answer_files, Len(answer_files))
       IN /\ user_history' = h
          /\ question_order' \in
                Selections(total_questions, num_questions, Dec(6, 10), h)
    /\ rec_pc' = "done"
    /\ UNCHANGED <<rec_entry, total_questions, num_questions, new_ratio,
                   answer_files, history_file>>
    /\ UNCHANGED <<bktVars, exceptRec>>

\* generate_recommendation(total_questions, num_questions, new_ratio, history_path)
GenerateRecommendation ==
    /\ rec_pc = "start"
    /\ rec_entry = "generate_recommendation"
    /\ LET h == LoadUserHistory(history_file)
       IN /\ user_history' = h
          /\ question_order' \in
                Selections(total_questions, num_questions, new_ratio, h)
    /\ rec_pc' = "done"
    /\ UNCHANGED <<rec_entry, total_questions, num_questions, new_ratio,
                   answer_files, history_file>>
    /\ UNCHANGED <<bktVars, exceptRec>>

NextRec ==
    \/ MethodGenerateRecommendation
    \/ GenerateRecommendation

\* a call of either generate_recommendation on any bank, history and request
InitRecommend ==
    /\ InitBKT
    /\ InitClsIdle
    /\ InitFC
    /\ InitRec
    /\ InitScoreIdle
    /\ InitUpdIdle
    /\ InitAppIdle

SpecRec == InitRecommend /\ [][NextRec]_vars

(* ------------------ BKTModel.generate_recommendation ------------------ *)

\* abs(x)
AbsOf(x) == IF x < 0 THEN -x ELSE x

\* the difficulty used when none is stored
DefaultDifficulty == Dec(5, 10)

\* variant: a question without a stored difficulty counts as hardest
StoredDifficulty_one(q) ==
    IF q \in DOMAIN question_difficulty THEN question_difficulty[q] ELSE One

\* self.question_difficulty.get(q_id, 0.5)
StoredDifficulty(q) ==
    IF q \in DOMAIN question_difficulty THEN question_difficulty[q] ELSE DefaultDifficulty

\* base_score * 0.5 + difficulty_factor * 0.3 + attempt_factor * 0.2
ScoreOf(q, mastery_data) ==
    LET base_score == One - mastery_data.mastery_probability
        difficulty == StoredDifficulty(q)
        difficulty_factor == One - AbsOf(Dec(7, 10) - difficulty)
        attempt_factor == IntDiv(1, 1 + mastery_data.attempt_count)
    IN FMul(base_score, Dec(5, 10)) + FMul(difficulty_factor, Dec(3, 10))
       + FMul(attempt_factor, Dec(2, 10))

\* variant: ascending, `reverse=True` is missing
RECURSIVE SortedByScore_ascending(_, _)
SortedByScore_ascending(order, scores) ==
    IF order = <<>> THEN <<>>
    ELSE LET k == CHOOSE i \in 1..Len(order) : \A j \in 1..Len(order) :
                      \/ scores[order[i]] < scores[order[j]]
                      \/ scores[order[i]] = scores[order[j]] /\ i <= j
         IN <<order[k]>> \o
            SortedByScore_ascending(SubSeq(order, 1, k - 1) \o SubSeq(order, k + 1, Len(order)),
                                    scores)

\* sorted(recommendation_scores.items(), key=score, reverse=True): descending
\* by score, equal scores in the order of the dict
RECURSIVE SortedByScore(_, _)
SortedByScore(order, scores) ==
    IF order = <<>> THEN <<>>
    ELSE LET k == CHOOSE i \in 1..Len(order) : \A j \in 1..Len(order) :
                      \/ scores[order[i]] > scores[order[j]]
                      \/ scores[order[i]] = scores[order[j]] /\ i <= j
         IN <<order[k]>> \o
            SortedByScore(SubSeq(order, 1, k - 1) \o SubSeq(order, k + 1, Len(order)),
                          scores)

\* BKTModel.generate_recommendation(mastery, num_questions)
ScoreRecommendation ==
    /\ score_pc = "start"
    /\ LET scores == [q \in DOMAIN score_mastery |-> ScoreOf(q, score_mastery[q])]
       IN /\ recommendation_scores' = scores
          /\ recommendation' = Prefix(SortedByScore(score_order, scores), score_num)
    /\ score_pc' = "done"
    /\ UNCHANGED <<score_mastery, score_order, score_num, difficulty_arg>>
    /\ UNCHANGED <<bktVars, exceptScore>>

\* update_question_difficulty(answer_history) on the model whose
\* generate_recommendation is about to be called
UpdateQuestionDifficultyCall(h, order) ==
    /\ pc = "idle"
    /\ score_pc = "start"
    /\ LET r == DifficultyLoop(h, order, question_difficulty) IN
         /\ question_difficulty' = r.dict
         /\ error' = r.err
    /\ difficulty_arg' = h
    /\ UNCHANGED <<params, pc, answer_history, todo, mastery, result, locals>>
    /\ UNCHANGED <<score_pc, score_mastery, score_order, score_num,
                   recommendation_scores, recommendation>>
    /\ UNCHANGED exceptScore

\* the histories of one question handed to update_question_difficulty
OneQuestionInputs == {(q :> s) : q \in QIds, s \in DiffSeqs}

\* histories of two questions: enough attempts, too few, none, a malformed record
TwoQuestionInputs ==
    [QIds -> {Block(MaxDiffLen, 1), Block(MinAttempts, 0), <<>>, <<Malformed>>}]

NextDiff ==
    \/ \E h \in OneQuestionInputs \cup TwoQuestionInputs \cup {EmptyDict} :
           \E order \in Orders(DOMAIN h) : UpdateQuestionDifficultyCall(h, order)
    \/ ScoreRecommendation

\* a model whose difficulties are updated and then used for a recommendation
InitDiff ==
    /\ InitBKT
    /\ InitClsIdle
    /\ InitFC
    /\ InitRecIdle
    /\ InitScoreFew
    /\ InitUpdIdle
    /\ InitAppIdle

SpecDiff == InitDiff /\ [][NextDiff]_vars

\* the difficulties update_question_difficulty can have stored
StoredDifficulties ==
    UNION {[K -> {Difficulty(Block(MaxDiffLen, k)) : k \in {0, 1, MaxDiffLen}}] :
              K \in SUBSET QIds}

NextScore == ScoreRecommendation

\* a model with stored difficulties, asked for a recommendation
InitScoring ==
    /\ p_L0 = Dec(1, 10)
    /\ p_T = Dec(3, 10)
    /\ p_G = Dec(1, 10)
    /\ p_S = Dec(1, 10)
    /\ question_difficulty \in StoredDifficulties
    /\ pc = "idle"
    /\ answer_history = EmptyDict
    /\ todo = {}
    /\ q_id = "none"
    /\ correct_count = 0
    /\ total_count = 0
    /\ p_mastery = 0
    /\ ans_idx = 0
    /\ mastery = EmptyDict
    /\ result = EmptyDict
    /\ error = "none"
    /\ InitClsIdle
    /\ InitFC
    /\ InitRecIdle
    /\ InitScore
    /\ InitUpdIdle
    /\ InitAppIdle

SpecScore == InitScoring /\ [][NextScore]_vars

(* ------------------ recommending from an empty history ---------------- *)

\* the histories without a single attempt: no question, or questions with
\* empty attempt sequences
EmptyHistories == UNION {[K -> {<<>>}] : K \in SUBSET QIds}

\* generate_recommendation(mastery, num_questions) on the mapping
\* calculate_mastery has just returned
RecommendFromMastery(order) ==
    /\ pc = "returned"
    /\ score_pc = "start"
    /\ score_mastery' = result
    /\ score_order' = order
    /\ LET scores == [q \in DOMAIN result |-> ScoreOf(q, result[q])]
       IN /\ recommendation_scores' = scores
          /\ recommendation' = Prefix(SortedByScore(order, scores), score_num)
    /\ score_pc' = "done"
    /\ UNCHANGED <<score_num, difficulty_arg>>
    /\ UNCHANGED <<bktVars, exceptScore>>

NextEmpty ==
    \/ \E h \in EmptyHistories : score_pc = "start" /\ CalculateMastery(h)
    \/ \E q \in QIds : ForQuestion(q)
    \/ ReturnMastery
    \/ \E order \in Orders(DOMAIN result) : RecommendFromMastery(order)
    \/ MethodGenerateRecommendation
    \/ GenerateRecommendation

\* both selection strategies, asked for a recommendation before any attempt
InitEmpty ==
    /\ InitBKT
    /\ InitClsIdle
    /\ InitFC
    /\ InitRecEmpty
    /\ InitScoreChained
    /\ InitUpdIdle
    /\ InitAppIdle

SpecEmpty == InitEmpty /\ [][NextEmpty]_vars

(* ------------------- configuration of the two models ------------------ *)

\* values a caller may give a probability parameter: the ends of [0,1] and
\* one inside
ParamValues == {0, Dec(1, 10), One}

\* tables a caller may give review_intervals
IntervalTables == {<<>>, <<1>>, <<1, 2, 4, 7, 15, 30>>}

\* model.p_L0, model.p_T, model.p_G, model.p_S = ...: the parameters are plain
\* attributes, __init__ takes no arguments and nothing checks an assignment
SetParameters(l0, t, g, sl) ==
    /\ pc = "idle"
    /\ p_L0' = l0
    /\ p_T' = t
    /\ p_G' = g
    /\ p_S' = sl
    /\ UNCHANGED <<question_difficulty, pc, answer_history, todo, mastery, result,
                   error, locals>>
    /\ UNCHANGED otherVars

\* curve.review_intervals = ...
SetReviewIntervals(table) ==
    /\ review_intervals' = table
    /\ fc_call' = NoCall
    /\ UNCHANGED <<decay_rate, clock, review_history, reviews>>
    /\ UNCHANGED <<bktVars, exceptFC>>

\* a single attempt at one question
OneAttemptInputs == {("1" :> <<Rec(b)>>) : b \in BOOLEAN}

NextConfig ==
    \/ \E l0, t, g, sl \in ParamValues : SetParameters(l0, t, g, sl)
    \/ \E table \in IntervalTables : SetReviewIntervals(table)
    \/ \E h \in OneAttemptInputs : CalculateMastery(h)
    \/ \E q \in QIds : ForQuestion(q)
    \/ ForAnswer
    \/ StoreMastery
    \/ ReturnMastery
    \/ \E rc \in 0..1 : GetNextReviewTime(rc)

SpecConfig == Init /\ [][NextConfig]_vars

(* ---------------------------- UpdateChecker --------------------------- *)

\* name.endswith(suffix) for the asset names of the model
EndsWith(name, suffix) ==
    \/ suffix = ".patch" /\ name = "update.patch"
    \/ suffix = ".exe" /\ name = "setup.exe"

\* the last asset of the list whose name has the suffix, or None
RECURSIVE LastAsset(_, _)
LastAsset(assets, suffix) ==
    IF assets = <<>> THEN NoAsset
    ELSE IF EndsWith(assets[Len(assets)], suffix) THEN assets[Len(assets)]
    ELSE LastAsset(SubSeq(assets, 1, Len(assets) - 1), suffix)

\* _download_file(asset, is_patch) after the events `log`: the thread is
\* started, or subscripting None raises and download_error is emitted
DownloadFile(asset, is_patch, log) ==
    IF asset = NoAsset
    THEN /\ download_thread' = "none"
         /\ events' = log \o <<"download_error">>
         /\ upd_pc' = "ended"
    ELSE /\ download_thread' = IF is_patch THEN "patch" ELSE "setup"
         /\ events' = log \o <<IF is_patch THEN "start_patch" ELSE "start_setup">>
         /\ upd_pc' = "downloading"

\* _start_background_download(release_info)
StartBackgroundDownload ==
    /\ upd_pc = "idle"
    /\ LET patch == LastAsset(release_assets, ".patch")
           setup == LastAsset(release_assets, ".exe")
       IN /\ patch_file' = patch
          /\ setup_file' = setup
          /\ IF patch = NoAsset /\ setup = NoAsset
             THEN /\ events' = events \o <<"download_error">>
                  /\ download_thread' = "none"
                  /\ upd_pc' = "ended"
             ELSE IF patch # NoAsset
             THEN DownloadFile(patch, TRUE, events)
             ELSE DownloadFile(setup, FALSE, events)
    /\ UNCHANGED release_assets
    /\ UNCHANGED <<bktVars, exceptUpd>>

\* `if self.patch_file and not self.setup_file`
FallsBack == patch_file # NoAsset /\ setup_file = NoAsset

\* the thread emits error: _on_download_error(error_msg)
OnDownloadError ==
    /\ upd_pc = "downloading"
    /\ LET log == events \o <<IF download_thread = "patch" THEN "patch_failed"
                                                           ELSE "setup_failed">>
       IN IF FallsBack
          THEN DownloadFile(setup_file, FALSE, log)
          ELSE /\ events' = log \o <<"download_error">>
               /\ download_thread' = "none"
               /\ upd_pc' = "ended"
    /\ UNCHANGED <<release_assets, patch_file, setup_file>>
    /\ UNCHANGED <<bktVars, exceptUpd>>

\* the thread emits complete: _on_download_complete(file_path, is_patch);
\* applied is what _apply_patch returns
OnDownloadComplete(applied) ==
    /\ upd_pc = "downloading"
    /\ IF download_thread = "patch" /\ ~applied
       THEN IF setup_file # NoAsset
            THEN DownloadFile(setup_file, FALSE, events \o <<"apply_failed">>)
            ELSE /\ events' = events \o <<"apply_failed", "download_error">>
                 /\ download_thread' = "none"
                 /\ upd_pc' = "ended"
       ELSE /\ events' = events \o <<"update_ready", "download_complete">>
            /\ download_thread' = "none"
            /\ upd_pc' = "ended"
    /\ UNCHANGED <<release_assets, patch_file, setup_file>>
    /\ UNCHANGED <<bktVars, exceptUpd>>

NextUpd ==
    \/ StartBackgroundDownload
    \/ OnDownloadError
    \/ \E applied \in BOOLEAN : OnDownloadComplete(applied)

\* a check for updates that found a newer release
InitUpdate ==
    /\ InitBKT
    /\ InitClsIdle
    /\ InitFC
    /\ InitRecIdle
    /\ InitScoreIdle
    /\ InitUpd
    /\ InitAppIdle

SpecUpd == InitUpdate /\ [][NextUpd]_vars

(* -------------------- QuestionSystem.submit_answers ------------------- *)

\* str(i) for the question numbers of the model
StrOf(i) == CASE i = 1 -> "1" [] i = 2 -> "2"

\* str(x).strip() on the answers of the sheet
Strip(a) == IF a = "B " THEN "B" ELSE a

\* variant: a viewed answer still counts
IsCorrectAtSubmit_viewed(i) ==
    /\ i \in DOMAIN user_answers
    /\ user_answers[i] = Strip(questions[i + 1])

\* is_correct of question i: answered, not viewed, and the right option
IsCorrectAtSubmit(i) ==
    /\ i \in DOMAIN user_answers
    /\ i \notin viewed_answers
    /\ user_answers[i] = Strip(questions[i + 1])

\* answer_history as the loop over enumerate(self.questions) builds it
SubmitHistory ==
    [q \in {StrOf(i + 1) : i \in 0..(Len(questions) - 1)} |->
        <<Rec(IsCorrectAtSubmit(IntOf(q) - 1))>>]

\* mastery = bkt_model.calculate_mastery(answer_history)
SubmitAnswers ==
    /\ cls_pc = "start"
    /\ CalculateMastery(SubmitHistory)

\* the classification of the mastery calculate_mastery returned
ClassifySubmitted ==
    /\ pc = "returned"
    /\ cls_pc = "start"
    /\ cls_mastery' = result
    /\ mastered_questions' =
           {IntOf(q) - 1 : q \in {k \in DOMAIN result : IsMasteredAtSubmit(result[k])}}
    /\ cls_pc' = "done"
    /\ UNCHANGED <<bktVars, exceptCls>>

NextSubmit ==
    \/ SubmitAnswers
    \/ \E q \in QIds : ForQuestion(q)
    \/ ForAnswer
    \/ StoreMastery
    \/ ReturnMastery
    \/ ClassifySubmitted

\* an exam session with its answers given, before submission
InitSubmission ==
    /\ InitBKT
    /\ InitClsIdle
    /\ InitFC
    /\ InitRecIdle
    /\ InitScoreIdle
    /\ InitUpdIdle
    /\ InitStat
    /\ InitSession
    /\ InitProgIdle
    /\ InitQPIdle

SpecSubmit == InitSubmission /\ [][NextSubmit]_vars

(* ---------------- QuestionProcessor.process_answer_file --------------- *)

\* the answer column of the question bank, by real_idx (from 0)
Bank == <<"A", "B">>

BankIndices == 0..(Len(Bank) - 1)

\* what an answer can hold
AnswerValues == {"A", "b"}

\* str(x).strip().upper() on the values of the model
Upper(a) == IF a = "a" THEN "A" ELSE IF a = "b" THEN "B" ELSE a

\* the largest session index of an answer
MaxIdx == 1

\* the largest total a counter reaches
MaxStat == 3

\* most submitted history files
MaxFiles == 2

\* samples of the bank without repetition: original_indices
IndexSamples ==
    {sq \in UNION {[1..k -> BankIndices] : k \in 0..Len(Bank)} :
        \A i, j \in DOMAIN sq : i # j => sq[i] # sq[j]}

\* answer files: session indices may lie outside original_indices
StatFiles ==
    {[original_indices |-> oi, answers |-> a] :
        oi \in IndexSamples,
        a \in UNION {[K -> AnswerValues] : K \in SUBSET (0..MaxIdx)}}

\* the files submit_answers writes: every answer belongs to a question of
\* the session
SubmittedFiles ==
    {f \in StatFiles :
        /\ f.original_indices # <<>>
        /\ \A idx \in DOMAIN f.answers : idx < Len(f.original_indices)}

NewEntry == [correct |-> 0, wrong |-> 0, total |-> 0]

\* variant: total is left alone
Counted_noTotal(entry, right) ==
    IF right THEN [entry EXCEPT !.correct = @ + 1]
    ELSE [entry EXCEPT !.wrong = @ + 1]

\* the three `+= 1` of one answer
Counted(entry, right) ==
    IF right THEN [entry EXCEPT !.total = @ + 1, !.correct = @ + 1]
    ELSE [entry EXCEPT !.total = @ + 1, !.wrong = @ + 1]

\* the body of the loop for the answer with session index idx
CountAnswer(stats, f, idx) ==
    IF idx < Len(f.original_indices)
    THEN LET real_idx == f.original_indices[idx + 1]
             correct_ans == Upper(Bank[real_idx + 1])
             user_ans == Upper(f.answers[idx])
             entry == IF real_idx \in DOMAIN stats THEN stats[real_idx]
                      ELSE NewEntry
         IN [k \in DOMAIN stats \cup {real_idx} |->
                IF k = real_idx THEN Counted(entry, user_ans = correct_ans)
                ELSE stats[k]]
    ELSE stats

\* the loop over user_answers.items(), smallest session index first
RECURSIVE CountAnswers(_, _, _)
CountAnswers(stats, f, keys) ==
    IF keys = {} THEN stats
    ELSE LET idx == CHOOSE i \in keys : \A j \in keys : i <= j
         IN CountAnswers(CountAnswer(stats, f, idx), f, keys \ {idx})

\* the stats a fresh QuestionProcessor saves after process_answer_file(f)
Processed(stats, f) == CountAnswers(stats, f, DOMAIN f.answers)

WithinStat(stats) == \A k \in DOMAIN stats : stats[k].total <= MaxStat

\* QuestionProcessor(username).process_answer_file(f)
ProcessAnswerFile(f) ==
    /\ WithinStat(Processed(question_stats, f))
    /\ question_stats' = Processed(question_stats, f)
    /\ last_file' = f
    /\ UNCHANGED history_files
    /\ UNCHANGED <<bktVars, exceptStat>>

\* the end of submit_answers: the file is written to the history directory
\* and handed to a fresh QuestionProcessor
SubmitAnswerFile(f) ==
    /\ Len(history_files) < MaxFiles
    /\ WithinStat(Processed(question_stats, f))
    /\ history_files' = Append(history_files, f)
    /\ question_stats' = Processed(question_stats, f)
    /\ last_file' = f
    /\ UNCHANGED <<bktVars, exceptStat>>

\* the loop of process_all_history over the first n history files
RECURSIVE ProcessedAll(_, _, _)
ProcessedAll(stats, files, n) ==
    IF n = 0 THEN stats
    ELSE Processed(ProcessedAll(stats, files, n - 1), files[n])

\* QuestionSystem.__init__: QuestionProcessor(username).process_all_history()
ProcessAllHistory ==
    /\ history_files # <<>>
    /\ LET stats == ProcessedAll(question_stats, history_files, Len(history_files))
       IN /\ WithinStat(stats)
          /\ question_stats' = stats
    /\ last_file' = history_files[Len(history_files)]
    /\ UNCHANGED history_files
    /\ UNCHANGED <<bktVars, exceptStat>>

NextStat == \E f \in StatFiles : ProcessAnswerFile(f)

SpecStat == Init /\ [][NextStat]_vars

NextHist ==
    \/ \E f \in SubmittedFiles : SubmitAnswerFile(f)
    \/ ProcessAllHistory

SpecHist == Init /\ [][NextHist]_vars

(* -------------------- MainWindow._update_progress --------------------- *)

\* most history files of a user
MaxHistory == 7

\* history files: a right and a wrong answer to question 0, a session of
\* both questions answered right, and a session of question 1 answered
\* wrong with a stray answer
ProgressFiles ==
    {[original_indices |-> <<0>>, answers |-> (0 :> "A")],
     [original_indices |-> <<0>>, answers |-> (0 :> "b")],
     [original_indices |-> <<1, 0>>, answers |-> (0 :> "b" @@ 1 :> "A")],
     [original_indices |-> <<1>>, answers |-> (0 :> "A" @@ 1 :> "A")]}

\* the records the loop over user_answers.items() of file f appends to the
\* history of the question with real_idx q
RECURSIVE FileAttempts(_, _, _)
FileAttempts(f, q, keys) ==
    IF keys = {} THEN <<>>
    ELSE LET idx == CHOOSE i \in keys : \A j \in keys : i <= j
             rest == FileAttempts(f, q, keys \ {idx})
         IN IF idx < Len(f.original_indices) /\ f.original_indices[idx + 1] = q
            THEN <<Rec(Upper(f.answers[idx]) = Upper(Bank[q + 1]))>> \o rest
            ELSE rest

\* the same over the first n files
RECURSIVE HistoryAttempts(_, _, _)
HistoryAttempts(files, n, q) ==
    IF n = 0 THEN <<>>
    ELSE HistoryAttempts(files, n - 1, q)
            \o FileAttempts(files[n], q, DOMAIN files[n].answers)

\* answer_history after the loop over answer_files: q_id = str(real_idx + 1)
ProgressHistory(files) ==
    [k \in {StrOf(q + 1) : q \in {r \in BankIndices :
                                       HistoryAttempts(files, Len(files), r) # <<>>}} |->
        HistoryAttempts(files, Len(files), IntOf(k) - 1)]

\* the inner loop of calculate_mastery over the first n answers
RECURSIVE MasteryFold(_, _, _)
MasteryFold(q, answers, n) ==
    IF n = 0 THEN InitialMastery(q)
    ELSE CHOOSE next \in {Learn(Posterior(p, Subscript(answers[n]).val)) :
                             p \in {MasteryFold(q, answers, n - 1)}} : TRUE

\* what calculate_mastery returns for a history of well-formed records
CalculatedMastery(h) ==
    [q \in {k \in DOMAIN h : ~SkipQuestion(h[k])} |->
        MasteryState(MasteryFold(q, h[q], Len(h[q])),
                     CountCorrect(h[q], Len(h[q])), Len(h[q]))]

\* int(correct_rate * attempt_count): the float product is the number of
\* correct attempts or falls just short of it (15 / 22 * 22 is below 15),
\* so the truncation is the nearest integer or the one below
CorrectCounts(m) ==
    {(m.correct_rate * m.attempt_count) \div SCALE,
     Round(m.correct_rate * m.attempt_count, SCALE)}

\* correct attempts required by the progress statistics
ProgressMinCorrect == 6

\* variant: the requirement of the classification at submission
IsMasteredInProgress_attempts(m, cc) ==
    /\ m.mastery_probability > Dec(7, 10)
    /\ m.correct_rate > Dec(6, 10)
    /\ m.attempt_count >= SubmitMinAttempts

\* bkt_prob > 0.7 and correct_rate > 0.6 and correct_count >= 6
IsMasteredInProgress(m, cc) ==
    /\ m.mastery_probability > Dec(7, 10)
    /\ m.correct_rate > Dec(6, 10)
    /\ cc >= ProgressMinCorrect

\* the sets the loop over mastery.items() can leave in mastered_indices:
\* each question is in for some correct_count the truncation can give
MasteredSets(m) ==
    LET may == {k \in DOMAIN m : \E cc \in CorrectCounts(m[k]) :
                                     IsMasteredInProgress(m[k], cc)}
        must == {k \in DOMAIN m : \A cc \in CorrectCounts(m[k]) :
                                      IsMasteredInProgress(m[k], cc)}
    IN {{IntOf(k) : k \in K} : K \in {X \in SUBSET may : must \subseteq X}}

\* _update_progress
UpdateProgress ==
    /\ prog_pc = "start"
    /\ LET total == Len(Bank)
           all_indices == 1..total
           h == ProgressHistory(history_files)
           m == CalculatedMastery(h)
           done == {IntOf(k) : k \in DOMAIN h}
       IN \E mastered \in MasteredSets(m) :
          LET unmastered == done \ mastered
              undone == all_indices \ done
          IN
          /\ prog_mastery' = m
          /\ done_indices' = done
          /\ mastered_indices' = mastered
          /\ unmastered_indices' = unmastered
          /\ undone_indices' = undone
          /\ progress' = [total |-> total,
                          done |-> Cardinality(done),
                          undone |-> Cardinality(undone),
                          unmastered |-> Cardinality(unmastered),
                          mastered |-> Cardinality(mastered)]
    /\ prog_pc' = "done"
    /\ UNCHANGED <<bktVars, exceptProg>>

NextProg == UpdateProgress

\* the main window opens on a history directory
InitProgress ==
    /\ InitBKT
    /\ InitClsIdle
    /\ InitFC
    /\ InitRecIdle
    /\ InitScoreIdle
    /\ InitUpdIdle
    /\ question_stats = EmptyDict
    /\ history_files \in UNION {[1..n -> ProgressFiles] : n \in 0..MaxHistory}
    /\ last_file = NoAnswerFile
    /\ InitSessionIdle
    /\ InitProg
    /\ InitQPIdle

SpecProg == InitProgress /\ [][NextProg]_vars

(* -------------- QuestionProcessor.generate_recommendation ------------- *)

\* q_id for q_id, answers in answer_history.items()
\* if any(not ans['is_correct'] for ans in answers)
WrongQuestions ==
    {q \in DOMAIN qp_answers :
        \E j \in 1..Len(qp_answers[q]) : ~qp_answers[q][j].is_correct}

\* q_id for q_id, history in review_history.items()
\* if fromisoformat(history['next_review_time']) <= now()
ReviewQuestions ==
    {q \in DOMAIN qp_reviews : qp_reviews[q].next_review_time <= QPNow}

\* get_similar_questions(q): the other questions with features (fewer
\* than top_k), none when q has no features
SimilarQuestions(q) ==
    IF q \in question_features THEN question_features \ {q} ELSE {}

\* the questions of question_clusters.items() in the cluster of q that
\* are not in recommended; nothing when q has no cluster
ClusterMates(q, recommended) ==
    IF q \in DOMAIN question_clusters
    THEN LET Mate(x) == /\ x \in DOMAIN question_clusters
                        /\ question_clusters[x] = question_clusters[q]
                        /\ x \notin Range(recommended)
         IN SelectSeq(ClusterIds, Mate)
    ELSE <<>>

\* cluster_questions after the loop over the first n recommended questions
RECURSIVE ClusterQuestions(_, _)
ClusterQuestions(recommended, n) ==
    IF n = 0 THEN <<>>
    ELSE ClusterQuestions(recommended, n - 1) \o ClusterMates(recommended[n], recommended)

\* generate_recommendation(answer_history, review_history, num_questions);
\* order is the order list(set(...)) gives the candidates
QPGenerateRecommendation(order) ==
    /\ qp_pc = "start"
    /\ LET padded ==
               IF Len(order) < qp_num
               THEN order \o Prefix(ClusterQuestions(order, Len(order)), qp_num - Len(order))
               ELSE order
       IN qp_result' = Prefix(padded, qp_num)
    /\ qp_candidates' = Range(order)
    /\ qp_pc' = "done"
    /\ UNCHANGED <<qp_answers, qp_reviews, qp_num, question_clusters, question_features>>
    /\ UNCHANGED <<bktVars, exceptQP>>

NextQP ==
    \E order \in Orders(WrongQuestions \cup ReviewQuestions
                            \cup UNION {SimilarQuestions(q) : q \in WrongQuestions}) :
        QPGenerateRecommendation(order)

\* a question processor with its clustering, asked for a recommendation
InitQPCall ==
    /\ InitBKT
    /\ InitClsIdle
    /\ InitFC
    /\ InitRecIdle
    /\ InitScoreIdle
    /\ InitUpdIdle
    /\ InitStat
    /\ InitSessionIdle
    /\ InitProgIdle
    /\ InitQP

SpecQP == InitQPCall /\ [][NextQP]_vars

(* --------------------------- specification ---------------------------- *)

Next ==
    \/ \E h \in MasteryInputs : CalculateMastery(h)
    \/ \E q \in QIds : ForQuestion(q)
    \/ ForAnswer
    \/ StoreMastery
    \/ ReturnMastery
    \/ Finish
    \/ \E h \in DifficultyInputs : \E order \in Orders(DOMAIN h) :
           UpdateQuestionDifficulty(h, order)

Spec == Init /\ [][Next]_vars

(* ====================================================================== *)
(*                               Claims                                   *)
(* ====================================================================== *)

\* every record of every sequence of h carries the correctness flag
Valid(h) ==
    \A q \in DOMAIN h : \A j \in 1..Len(h[q]) : "is_correct" \in DOMAIN h[q][j]

\* the recurrence as the specification states it, with the default
\* parameters: posterior for the observed outcome, then the learning update
RefStep(p, c) ==
    LET pS == Dec(1, 10)
        pG == Dec(1, 10)
        pT == Dec(3, 10)
        post == IF c
                THEN FDiv(FMul(p, One - pS), FMul(p, One - pS) + FMul(One - p, pG))
                ELSE FDiv(FMul(p, pS), FMul(p, pS) + FMul(One - p, One - pG))
    IN post + FMul(One - post, pT)

\* left-to-right fold of RefStep over the first n attempts, from p_init = 0.1
RECURSIVE RefFold(_, _)
RefFold(seq, n) ==
    IF n = 0 THEN Dec(1, 10)
    ELSE RefStep(RefFold(seq, n - 1), seq[n].is_correct)

\* the first n attempts of seq all have the outcome c
AllOutcome(seq, n, c) == \A j \in 1..n : seq[j].is_correct = c

Abs(x) == IF x < 0 THEN -x ELSE x

\* C1: for every question with a non-empty attempt sequence the reported
\* mastery_probability is the left-to-right fold of the stated recurrence
\* from 0.1, and so is the running value after every step of the loop.
Thm_C1 ==
    /\ pc = "for_ans" =>
         p_mastery = RefFold(answer_history[q_id], ans_idx - 1)
    /\ pc = "returned" =>
         \A q \in DOMAIN answer_history :
             answer_history[q] # <<>> =>
                 /\ q \in DOMAIN result
                 /\ result[q].mastery_probability
                        = RefFold(answer_history[q], Len(answer_history[q]))

\* a call returned for a history of at least three attempts, right and wrong
Witness_C1 ==
    /\ pc = "returned"
    /\ "1" \in DOMAIN result
    /\ Len(answer_history["1"]) >= 3
    /\ \E j, k \in 1..Len(answer_history["1"]) :
           /\ answer_history["1"][j].is_correct
           /\ ~answer_history["1"][k].is_correct

ThreeCorrect == <<Rec(TRUE), Rec(TRUE), Rec(TRUE)>>

\* C2 as stated: three correct attempts give mastery_probability within
\* 0.001 of 0.959.
Orig_C2 ==
    (/\ pc = "returned"
     /\ "1" \in DOMAIN answer_history
     /\ answer_history["1"] = ThreeCorrect)
    => Abs(result["1"].mastery_probability - Dec(959, 1000)) <= Dec(1, 1000)

\* C2 (amended): three correct attempts give mastery_probability within 0.001
\* of 0.9968 (the recurrence gives 0.65, 0.9605, 0.9968).
Thm_C2 ==
    (/\ pc = "returned"
     /\ "1" \in DOMAIN answer_history
     /\ answer_history["1"] = ThreeCorrect)
    => Abs(result["1"].mastery_probability - Dec(9968, 10000)) <= Dec(1, 1000)

Witness_C2 ==
    /\ pc = "returned"
    /\ "1" \in DOMAIN result
    /\ answer_history["1"] = ThreeCorrect

\* C3: a step of the fold that processes a correct attempt never lowers the
\* running mastery probability, whatever the attempts before it.
Thm_C3 ==
    [][(/\ pc = "for_ans"
        /\ pc' = "for_ans"
        /\ ans_idx' = ans_idx + 1
        /\ answer_history[q_id][ans_idx].is_correct)
       => p_mastery' >= p_mastery]_vars

\* a correct attempt was processed after a history of right and wrong ones
Witness_C3 ==
    /\ pc = "for_ans"
    /\ ans_idx >= 4
    /\ answer_history[q_id][ans_idx - 1].is_correct
    /\ answer_history[q_id][ans_idx - 2].is_correct
    /\ ~answer_history[q_id][ans_idx - 3].is_correct

\* C4: while every attempt processed so far was incorrect, the running
\* mastery probability stays strictly below p_init + p_transit (0.4).
Thm_C4 ==
    (/\ pc = "for_ans"
     /\ ans_idx > 1
     /\ AllOutcome(answer_history[q_id], ans_idx - 1, FALSE))
    => p_mastery < p_L0 + p_T

\* several incorrect attempts in a row were processed
Witness_C4 ==
    /\ pc = "for_ans"
    /\ ans_idx >= 5
    /\ AllOutcome(answer_history[q_id], ans_idx - 1, FALSE)

\* the ranges of an emitted MasteryState
StateInRange(m) ==
    /\ 0 <= m.mastery_probability /\ m.mastery_probability <= One
    /\ 0 <= m.correct_rate /\ m.correct_rate <= One
    /\ m.attempt_count >= 1

\* C5 as stated: the running probability is strictly inside (0,1) after every
\* step, no denominator is zero, valid input raises nothing and every emitted
\* MasteryState is in range.
Orig_C5 ==
    /\ (pc = "for_ans" /\ ans_idx > 1) => (0 < p_mastery /\ p_mastery < One)
    /\ pc = "for_ans" => (CorrectDen(p_mastery) > 0 /\ WrongDen(p_mastery) > 0)
    /\ pc = "raised" => ~Valid(answer_history)
    /\ \A q \in DOMAIN mastery : StateInRange(mastery[q])
    /\ \A q \in DOMAIN result : StateInRange(result[q])

\* C5 (amended): the running probability is in (0,1] after every step (in
\* finite precision a run of correct attempts reaches exactly 1), no
\* denominator is zero, valid input raises nothing and every emitted
\* MasteryState is in range.
Thm_C5 ==
    /\ pc = "for_ans" => (0 < p_mastery /\ p_mastery <= One)
    /\ pc = "for_ans" => (CorrectDen(p_mastery) > 0 /\ WrongDen(p_mastery) > 0)
    /\ pc = "raised" => ~Valid(answer_history)
    /\ \A q \in DOMAIN mastery : StateInRange(mastery[q])
    /\ \A q \in DOMAIN result : StateInRange(result[q])

\* a run of correct attempts drove the reported probability to exactly 1
Witness_C5 ==
    /\ pc = "returned"
    /\ "1" \in DOMAIN result
    /\ Valid(answer_history)
    /\ result["1"].mastery_probability = One

\* number of records of h that lack the correctness flag
RECURSIVE NumMalformedSeq(_, _)
NumMalformedSeq(seq, n) ==
    IF n = 0 THEN 0
    ELSE NumMalformedSeq(seq, n - 1)
         + (IF "is_correct" \in DOMAIN seq[n] THEN 0 ELSE 1)

RECURSIVE NumMalformed(_, _)
NumMalformed(h, K) ==
    IF K = {} THEN 0
    ELSE LET q == CHOOSE k \in K : TRUE
         IN NumMalformedSeq(h[q], Len(h[q])) + NumMalformed(h, K \ {q})

\* the sequence of q is non-empty and every record of it is well formed
WellFormedQuestion(h, q) ==
    /\ h[q] # <<>>
    /\ \A j \in 1..Len(h[q]) : "is_correct" \in DOMAIN h[q][j]

\* C6: a history with a record lacking the correctness flag ends in an error
\* (Python's KeyError) and returns nothing; such a record never enters the
\* fold, a correct_rate or an attempt_count.
Thm_C6 ==
    /\ (pc \in {"returned", "raised"} /\ ~Valid(answer_history)) =>
           (pc = "raised" /\ error = "KeyError" /\ result = EmptyDict)
    /\ pc = "for_ans" => WellFormedQuestion(answer_history, q_id)
    /\ \A q \in DOMAIN mastery : WellFormedQuestion(answer_history, q)
    /\ \A q \in DOMAIN result : WellFormedQuestion(answer_history, q)

\* the call on a history with a malformed record has ended
Witness_C6 ==
    /\ pc = "raised"
    /\ error = "KeyError"
    /\ ~Valid(answer_history)

\* C7 as stated: when the history holds one malformed record, the questions
\* whose records are all well formed still get their MasteryState.
Orig_C7 ==
    (/\ pc \in {"returned", "raised"}
     /\ NumMalformed(answer_history, DOMAIN answer_history) = 1)
    => \A q \in DOMAIN answer_history :
           WellFormedQuestion(answer_history, q) => q \in DOMAIN result

\* C8: a question id is in the returned mapping exactly when its attempt
\* sequence in the input is non-empty.
Thm_C8 ==
    pc = "returned" =>
        DOMAIN result = {q \in DOMAIN answer_history : answer_history[q] # <<>>}

\* a call returned for a history with an empty and a non-empty sequence
Witness_C8 ==
    /\ pc = "returned"
    /\ \E q1, q2 \in DOMAIN answer_history :
           /\ answer_history[q1] = <<>>
           /\ answer_history[q2] # <<>>
           /\ q1 \notin DOMAIN result
           /\ q2 \in DOMAIN result

\* number of attempts of seq with is_correct true
NumCorrect(seq) == Cardinality({j \in 1..Len(seq) : seq[j].is_correct})

\* C9: for every reported question attempt_count is the length of its
\* sequence and correct_rate is the number of correct attempts divided by it.
Thm_C9 ==
    pc = "returned" =>
        \A q \in DOMAIN result :
            /\ result[q].attempt_count = Len(answer_history[q])
            /\ result[q].correct_rate
                   = IntDiv(NumCorrect(answer_history[q]), Len(answer_history[q]))

\* a call returned for a history of several attempts, right and wrong
Witness_C9 ==
    /\ pc = "returned"
    /\ \E q \in DOMAIN result :
           /\ result[q].attempt_count >= 3
           /\ 0 < result[q].correct_rate
           /\ result[q].correct_rate < One

\* the mapping the specification assigns to a history: a function of the
\* history alone
RefMastery(h) ==
    [q \in {k \in DOMAIN h : h[k] # <<>>} |->
        [mastery_probability |-> RefFold(h[q], Len(h[q])),
         correct_rate |-> IntDiv(NumCorrect(h[q]), Len(h[q])),
         attempt_count |-> Len(h[q])]]

\* C10: the mapping a call returns is a function of its input history alone,
\* whatever calls and difficulty updates came before, and no step of the call
\* changes the input history, the four parameters or question_difficulty.
Thm_C10 ==
    /\ [](pc = "returned" => result = RefMastery(answer_history))
    /\ [][(pc # "idle" \/ pc' # "idle") =>
              UNCHANGED <<p_L0, p_T, p_G, p_S, question_difficulty>>]_vars
    /\ [][(pc \in {"for_q", "for_ans"}) => UNCHANGED answer_history]_vars

\* a call returned a MasteryState for a question whose difficulty an earlier
\* update_question_difficulty had stored
Witness_C10 ==
    /\ pc = "returned"
    /\ \E q \in DOMAIN result : q \in DOMAIN question_difficulty

\* C11: at submission a question is classified mastered exactly when
\* mastery_probability > 0.7, correct_rate > 0.6 and attempt_count >= 2;
\* (0.75, 0.65, 2) is mastered and (0.75, 0.65, 1) is not.
Thm_C11 ==
    cls_pc = "done" =>
        /\ \A q \in DOMAIN cls_mastery :
               (IntOf(q) - 1 \in mastered_questions)
               <=> (/\ cls_mastery[q].mastery_probability > Dec(7, 10)
                    /\ cls_mastery[q].correct_rate > Dec(6, 10)
                    /\ cls_mastery[q].attempt_count >= 2)
        /\ \A x \in mastered_questions : \E q \in DOMAIN cls_mastery : x = IntOf(q) - 1
        /\ \A q \in DOMAIN cls_mastery :
               (/\ cls_mastery[q].mastery_probability = Dec(75, 100)
                /\ cls_mastery[q].correct_rate = Dec(65, 100))
               => /\ cls_mastery[q].attempt_count = 2 => IntOf(q) - 1 \in mastered_questions
                  /\ cls_mastery[q].attempt_count = 1 => IntOf(q) - 1 \notin mastered_questions

\* Scenario D was classified: (0.75, 0.65, 2) for one question and
\* (0.75, 0.65, 1) for the other
Witness_C11 ==
    /\ cls_pc = "done"
    /\ DOMAIN cls_mastery = {"1", "2"}
    /\ cls_mastery["1"] = [mastery_probability |-> Dec(75, 100),
                           correct_rate |-> Dec(65, 100), attempt_count |-> 2]
    /\ cls_mastery["2"] = [mastery_probability |-> Dec(75, 100),
                           correct_rate |-> Dec(65, 100), attempt_count |-> 1]
    /\ mastered_questions = {0}


(* ------------------------ ForgettingCurve claims ----------------------- *)

\* the last call was calculate_memory_strength
CalledStrength == fc_call.op = "calculate_memory_strength"

\* the last call was get_next_review_time
CalledNext == fc_call.op = "get_next_review_time"

\* the default interval table of the specification, in days
DefaultIntervals == <<1, 2, 4, 7, 15, 30>>

Min(a, b) == IF a <= b THEN a ELSE b

\* C12 as stated: calculate_memory_strength returns exactly 0.0 whenever
\* last_review_time is absent and also whenever review_count = 0.
Orig_C12 ==
    CalledStrength =>
        ((fc_call.last_review_time = None \/ fc_call.review_count = 0)
            => fc_call.ret = 0)

\* C12: calculate_memory_strength returns exactly 0.0 whenever last_review_time
\* is absent; with a last_review_time and review_count = 0 it returns
\* 0.7 * exp(-decay_rate * days), which is 0.7 on the day of the review and
\* not zero before the exponential underflows.
Thm_C12 ==
    CalledStrength =>
        /\ fc_call.last_review_time = None => fc_call.ret = 0
        /\ (fc_call.last_review_time # None /\ fc_call.review_count = 0) =>
              LET days == DaysOf(fc_call.now - fc_call.last_review_time.t)
              IN /\ fc_call.ret = FMul(Dec(7, 10), Exp(-Dec(1, 10) * days))
                 /\ days = 0 => fc_call.ret = Dec(7, 10)
                 /\ fc_call.ret > 0

Witness_C12 ==
    /\ CalledStrength
    /\ fc_call.review_count = 0
    /\ fc_call.last_review_time = DateTime(fc_call.now)
    /\ fc_call.ret = Dec(7, 10)

\* C13: get_next_review_time returns now + review_intervals[min(review_count,
\* len - 1)] days for every review_count >= 0; with the default table every
\* review_count >= 5 yields now + 30 days.
Thm_C13 ==
    CalledNext =>
        /\ fc_call.ret =
              DateTime(fc_call.now
                       + DefaultIntervals[Min(fc_call.review_count,
                                              Len(DefaultIntervals) - 1) + 1]
                         * TicksPerDay)
        /\ fc_call.review_count >= 5 =>
              fc_call.ret.t = fc_call.now + 30 * TicksPerDay

Witness_C13 ==
    /\ CalledNext
    /\ fc_call.review_count = 7
    /\ fc_call.ret = DateTime(fc_call.now + 30 * TicksPerDay)

\* C14: after any sequence of update_review_history calls from an empty
\* history, every entry has next_review_time >= last_review_time.
Thm_C14 ==
    \A q \in DOMAIN review_history :
        /\ review_history[q].last_review_time.kind = "str"
        /\ review_history[q].next_review_time.kind = "str"
        /\ FromIsoFormat(review_history[q].next_review_time).t
              >= FromIsoFormat(review_history[q].last_review_time).t

Witness_C14 ==
    /\ DOMAIN review_history = QIds
    /\ review_history["1"].review_count = 3
    /\ review_history["1"].last_review_time = IsoFormat(DateTime(MaxClock))
    /\ review_history["1"].next_review_time
          = IsoFormat(DateTime(MaxClock + 7 * TicksPerDay))

\* C15: an unseen question id gets a fresh entry and every call increases
\* review_count and total_count by exactly 1 and correct_count by 1 iff
\* is_correct, so review_count = total_count = number of calls for the id and
\* correct_count = number of correct calls <= total_count.
Thm_C15 ==
    /\ DOMAIN review_history = DOMAIN reviews
    /\ \A q \in DOMAIN review_history :
          /\ review_history[q].review_count = reviews[q].n
          /\ review_history[q].total_count = reviews[q].n
          /\ review_history[q].correct_count = reviews[q].c
          /\ review_history[q].correct_count <= review_history[q].total_count
          /\ reviews[q].n >= 1

Witness_C15 ==
    /\ "1" \in DOMAIN review_history
    /\ reviews["1"].n = 3
    /\ reviews["1"].c = 2
    /\ review_history["1"].total_count = 3
    /\ review_history["1"].correct_count = 2

\* the question ids whose entry a step made or changed
Touched ==
    {q \in DOMAIN review_history' :
        q \notin DOMAIN review_history \/ review_history'[q] # review_history[q]}

\* C16: update_review_history changes only the entry of its question_id and
\* deletes no entry; get_next_review_time and calculate_memory_strength
\* modify no state.
Thm_C16 ==
    [][/\ DOMAIN review_history \subseteq DOMAIN review_history'
       /\ Cardinality(Touched) <= 1
       /\ \A q \in DOMAIN review_history :
             (q \in DOMAIN reviews' /\ reviews'[q] = reviews[q])
                => review_history'[q] = review_history[q]
       /\ fc_call'.op \in {"get_next_review_time", "calculate_memory_strength"}
             => UNCHANGED <<review_history, decay_rate, review_intervals, clock>>]_vars

Witness_C16 ==
    /\ DOMAIN review_history = QIds
    /\ review_history["1"].review_count = 1
    /\ review_history["2"].review_count = 1
    /\ review_history["1"].last_review_time # review_history["2"].last_review_time
    /\ CalledStrength

\* C17: after the k-th review of a question its next_review_time is the time
\* of that review plus review_intervals[min(k, len - 1)] days, whatever
\* is_correct and the previous next_review_time were; the first review
\* schedules 2 days ahead.
Thm_C17 ==
    \A q \in DOMAIN review_history :
        LET k == reviews[q].n
            entry == review_history[q]
        IN /\ entry.next_review_time =
                 IsoFormat(DateTime(reviews[q].at
                     + DefaultIntervals[Min(k, Len(DefaultIntervals) - 1) + 1]
                       * TicksPerDay))
           /\ FromIsoFormat(entry.last_review_time).t <= reviews[q].at
           /\ k = 1 => FromIsoFormat(entry.next_review_time).t
                          = reviews[q].at + 2 * TicksPerDay

Witness_C17 ==
    /\ DOMAIN review_history = QIds
    /\ reviews["1"].n = 1
    /\ reviews["1"].c = 0
    /\ review_history["1"].next_review_time
          = IsoFormat(DateTime(reviews["1"].at + 2 * TicksPerDay))
    /\ reviews["2"].n = 5
    /\ review_history["2"].next_review_time
          = IsoFormat(DateTime(reviews["2"].at + 30 * TicksPerDay))

\* C18 as stated: calculate_memory_strength returns a value in [0,1] for every
\* input, a last_review_time later than the current time included, and so
\* every stored memory_strength is in [0,1].
Orig_C18 ==
    /\ CalledStrength => (0 <= fc_call.ret /\ fc_call.ret <= One)
    /\ \A q \in DOMAIN review_history :
          /\ 0 <= review_history[q].memory_strength
          /\ review_history[q].memory_strength <= One


(* --------------------- generate_recommendation claims ------------------ *)

\* the question universe of the call, its two partitions and the ids returned
RecUniverse == 0..(total_questions - 1)
NeverAttempted == RecUniverse \ DOMAIN user_history
Attempted == RecUniverse \cap DOMAIN user_history
Chosen == {question_order[k] : k \in 1..Len(question_order)}

\* floor(0.6 * num_questions)
NewQuota == (6 * num_questions) \div 10

\* a is ahead of b in descending lexicographic order of
\* (wrong_count, view_answer_count, total_time)
Ahead(a, b) ==
    LET x == user_history[a]
        y == user_history[b]
    IN \/ x.wrong_count > y.wrong_count
       \/ /\ x.wrong_count = y.wrong_count
          /\ \/ x.view_answer_count > y.view_answer_count
             \/ /\ x.view_answer_count = y.view_answer_count
                /\ x.total_time > y.total_time

\* C19: when the never-attempted partition has at least floor(0.6 n) ids and
\* the attempted partition at least n - floor(0.6 n), the result holds exactly
\* floor(0.6 n) never-attempted ids and n - floor(0.6 n) attempted ids, the
\* attempted ones being the first of the attempted partition in descending
\* lexicographic order of (wrong_count, view_answer_count, total_time), equal
\* entries in index order.
Thm_C19 ==
    (/\ rec_pc = "done"
     /\ Cardinality(NeverAttempted) >= NewQuota
     /\ Cardinality(Attempted) >= num_questions - NewQuota)
    => /\ Len(question_order) = num_questions
       /\ Cardinality(Chosen \cap NeverAttempted) = NewQuota
       /\ Cardinality(Chosen \cap Attempted) = num_questions - NewQuota
       /\ \A a \in Chosen \cap Attempted : \A b \in Attempted \ Chosen :
             \/ Ahead(a, b)
             \/ user_history[a] = user_history[b] /\ a < b

Witness_C19 ==
    /\ rec_pc = "done"
    /\ rec_entry = "generate_recommendation"
    /\ total_questions = 5
    /\ num_questions = 4
    /\ DOMAIN user_history = {0, 1, 2}
    /\ user_history[0].total_time = 1
    /\ user_history[1].view_answer_count = 1
    /\ user_history[2].wrong_count = 1
    /\ question_order = <<3, 1, 4, 2>>

\* C20: for every universe size, history and num_questions >= 0 and every
\* outcome of the sample and the shuffle, the list returned has length
\* min(num_questions, universe size), holds no id twice and only ids of the
\* universe; a short partition is topped up from the other.
Thm_C20 ==
    rec_pc = "done" =>
        /\ Len(question_order) = Min(num_questions, total_questions)
        /\ Cardinality(Chosen) = Len(question_order)
        /\ Chosen \subseteq RecUniverse

Witness_C20 ==
    /\ rec_pc = "done"
    /\ rec_entry = "Recommender.generate_recommendation"
    /\ total_questions = 3
    /\ num_questions = 3
    /\ Attempted = {2}
    /\ 3 \in DOMAIN user_history
    /\ Len(question_order) = 3
    /\ Chosen = {0, 1, 2}


(* ---------------- BKTModel.generate_recommendation claims -------------- *)

\* 0.5*(1 - mastery_probability) + 0.3*(1 - |0.7 - difficulty(q)|)
\* + 0.2/(1 + attempt_count) of a question of the scored mapping
RefScore(q) ==
    LET m == score_mastery[q]
        d == IF q \in DOMAIN question_difficulty THEN question_difficulty[q] ELSE Dec(5, 10)
        gap == IF Dec(7, 10) >= d THEN Dec(7, 10) - d ELSE d - Dec(7, 10)
    IN FMul(Dec(5, 10), One - m.mastery_probability)
       + FMul(Dec(3, 10), One - gap)
       + FMul(Dec(2, 10), IntDiv(1, 1 + m.attempt_count))

Recommended == {recommendation[k] : k \in 1..Len(recommendation)}

\* C21: the list returned has length min(num_questions, number of questions
\* in the mastery mapping), holds no question twice, is ordered by
\* non-increasing score, and no question left out scores higher than a
\* question returned.
Thm_C21 ==
    score_pc = "done" =>
        /\ Len(recommendation) = Min(score_num, Cardinality(DOMAIN score_mastery))
        /\ Cardinality(Recommended) = Len(recommendation)
        /\ Recommended \subseteq DOMAIN score_mastery
        /\ \A q \in DOMAIN score_mastery : recommendation_scores[q] = RefScore(q)
        /\ \A a, b \in 1..Len(recommendation) :
              a < b => RefScore(recommendation[a]) >= RefScore(recommendation[b])
        /\ \A u \in DOMAIN score_mastery \ Recommended : \A r \in Recommended :
              RefScore(u) <= RefScore(r)

Witness_C21 ==
    /\ score_pc = "done"
    /\ DOMAIN score_mastery = ScoreIds
    /\ score_num = 2
    /\ score_order = <<"1", "2", "3">>
    /\ "1" \in DOMAIN question_difficulty
    /\ Len(recommendation) = 2
    /\ RefScore("1") < RefScore("2")
    /\ RefScore("2") < RefScore("3")
    /\ recommendation = <<"3", "2">>


\* the stored difficulty of q is the same before and after a step
SameDifficulty(q) ==
    IF q \in DOMAIN question_difficulty
    THEN q \in DOMAIN question_difficulty' /\ question_difficulty'[q] = question_difficulty[q]
    ELSE q \notin DOMAIN question_difficulty'

\* the observed wrong-rate 1 - correct/total of a sequence of attempts
WrongRate(seq) == One - IntDiv(NumCorrect(seq), Len(seq))

\* q has more than 5 attempts in the history h
Enough(h, q) == q \in DOMAIN h /\ Len(h[q]) > 5

\* C22: update_question_difficulty sets difficulty(q) to the wrong-rate
\* 1 - correct/total only when q has more than 5 attempts and leaves the stored
\* difficulty of every other question unchanged; it raises no division by zero
\* for a question without attempts; every stored difficulty is in [0,1]; the
\* scorer uses 0.5 for a question with no stored difficulty.
Thm_C22 ==
    /\ [](/\ \A q \in DOMAIN question_difficulty :
                0 <= question_difficulty[q] /\ question_difficulty[q] <= One
          /\ error \in {"none", "KeyError"}
          /\ Valid(difficulty_arg) => error = "none"
          /\ score_pc = "done" =>
                \A q \in DOMAIN score_mastery \ DOMAIN question_difficulty :
                    recommendation_scores[q] =
                        FMul(Dec(5, 10), One - score_mastery[q].mastery_probability)
                        + FMul(Dec(3, 10), One - (Dec(7, 10) - Dec(5, 10)))
                        + FMul(Dec(2, 10), IntDiv(1, 1 + score_mastery[q].attempt_count)))
    /\ [][score_pc' = "start" =>
             \A q \in QIds :
                 /\ ~Enough(difficulty_arg', q) => SameDifficulty(q)
                 /\ ~SameDifficulty(q) =>
                       /\ Enough(difficulty_arg', q)
                       /\ question_difficulty'[q] = WrongRate(difficulty_arg'[q])
                 /\ (error' = "none" /\ Enough(difficulty_arg', q)) =>
                       /\ q \in DOMAIN question_difficulty'
                       /\ question_difficulty'[q] = WrongRate(difficulty_arg'[q])]_vars

Witness_C22 ==
    /\ score_pc = "done"
    /\ DOMAIN question_difficulty = {"1"}
    /\ question_difficulty["1"] = WrongRate(Block(MaxDiffLen, 1))
    /\ difficulty_arg = [q \in QIds |-> IF q = "1" THEN Block(MinAttempts, 0) ELSE <<>>]
    /\ DOMAIN score_mastery = QIds
    /\ error = "none"
    /\ Len(recommendation) = 2


(* ---------------------------- empty history ---------------------------- *)

\* C23 as stated: on an empty history neither strategy raises an error and
\* each returns min(num_questions, universe size) question ids, every
\* question of the universe counting as never attempted.
Orig_C23 ==
    /\ error = "none"
    /\ rec_pc = "done" =>
          /\ Len(question_order) = Min(num_questions, total_questions)
          /\ Chosen \subseteq RecUniverse
    /\ score_pc = "done" =>
          Len(recommendation) = Min(score_num, Cardinality(DOMAIN answer_history))


(* ---------------------------- configuration ---------------------------- *)

\* a probability strictly between 0 and 1
Inside(x) == 0 < x /\ x < One

NextEvent(k) == events[k + 1]

\* C25 as stated: when the download of the patch fails and the release also
\* holds an installer, the installer is downloaded instead of giving up;
\* download_error is emitted after a failed download only when there is no
\* installer to fall back to; every update download that has ended was
\* followed by update_ready or download_error.
Orig_C25 ==
    /\ \A k \in 1..Len(events) :
          (events[k] = "patch_failed" /\ setup_file # NoAsset) =>
              (k < Len(events) /\ NextEvent(k) = "start_setup")
    /\ \A k \in 1..Len(events) :
          (events[k] = "patch_failed" /\ k < Len(events)
              /\ NextEvent(k) = "download_error") => setup_file = NoAsset
    /\ (upd_pc = "ended" /\ events # <<>>) =>
          \E k \in 1..Len(events) : events[k] \in {"update_ready", "download_error"}


(* ------------------------------- C26 ---------------------------------- *)

\* the answer of file f with session index idx is one for question q
AnswerFor(f, idx, q) ==
    /\ idx < Len(f.original_indices)
    /\ f.original_indices[idx + 1] = q

\* question q was answered in file f
Answered(f, q) == \E idx \in DOMAIN f.answers : AnswerFor(f, idx, q)

\* the total counter of question q in the persisted stats
TotalOf(q) == IF q \in DOMAIN question_stats THEN question_stats[q].total ELSE 0

\* C26 as stated: after any sequence of submissions and application
\* starts, the total counter of every question is the number of history
\* files in which the question was answered
Orig_C26 ==
    \A q \in BankIndices :
        TotalOf(q) = Cardinality({i \in DOMAIN history_files :
                                     Answered(history_files[i], q)})


(* ------------------------------- C30 ---------------------------------- *)

CounterOf(stats, q, counter) == IF q \in DOMAIN stats THEN stats[q][counter] ELSE 0

\* the answers of file f that are processed for question q
AnswersFor(f, q) == {idx \in DOMAIN f.answers : AnswerFor(f, idx, q)}

\* those of them that equal the answer of the bank
RightAnswersFor(f, q) ==
    {idx \in AnswersFor(f, q) : Upper(f.answers[idx]) = Upper(Bank[q + 1])}

ConsistentStats ==
    \A q \in DOMAIN question_stats :
        /\ question_stats[q].correct >= 0
        /\ question_stats[q].wrong >= 0
        /\ question_stats[q].total >= 0
        /\ question_stats[q].correct + question_stats[q].wrong = question_stats[q].total

\* one call of process_answer_file counts each processed answer once
CountsEachAnswerOnce ==
    /\ DOMAIN question_stats' =
           DOMAIN question_stats \cup {q \in BankIndices : AnswersFor(last_file', q) # {}}
    /\ \A q \in BankIndices :
        LET n == Cardinality(AnswersFor(last_file', q))
            r == Cardinality(RightAnswersFor(last_file', q))
        IN /\ CounterOf(question_stats', q, "total") = CounterOf(question_stats, q, "total") + n
           /\ CounterOf(question_stats', q, "correct") = CounterOf(question_stats, q, "correct") + r
           /\ CounterOf(question_stats', q, "wrong") = CounterOf(question_stats, q, "wrong") + (n - r)

\* C30: starting from empty stats, after any sequence of
\* process_answer_file calls every entry has correct + wrong = total with
\* no negative counter; a call adds 1 to total and to exactly one of
\* correct and wrong for each answer whose session index lies inside
\* original_indices, and nothing for the other answers
Thm_C30 == []ConsistentStats /\ [][CountsEachAnswerOnce]_vars

\* a call whose file holds an answer inside and an answer outside
\* original_indices, on stats that hold right and wrong answers
Witness_C30 ==
    /\ Len(last_file.original_indices) = 1
    /\ DOMAIN last_file.answers = {0, 1}
    /\ \E q \in DOMAIN question_stats :
           /\ question_stats[q].correct >= 1
           /\ question_stats[q].wrong >= 1
           /\ question_stats[q].total = MaxStat


(* ------------------------------- C27 ---------------------------------- *)

\* the question numbers of the session
SessionIds == {StrOf(i) : i \in 1..Len(questions)}

\* one attempt per question of the session; unanswered and viewed
\* questions are incorrect attempts
OneAttemptEach ==
    /\ DOMAIN answer_history = SessionIds
    /\ \A i \in 0..(Len(questions) - 1) :
        /\ Len(answer_history[StrOf(i + 1)]) = 1
        /\ (i \notin DOMAIN user_answers \/ i \in viewed_answers)
               => ~answer_history[StrOf(i + 1)][1].is_correct

\* C27: submit_answers hands calculate_mastery one attempt per question of
\* the session, unanswered and viewed questions as incorrect attempts, so
\* every MasteryState has attempt_count = 1 and the set of mastered
\* questions is empty, whatever was answered and viewed
Thm_C27 ==
    /\ pc # "idle" => OneAttemptEach
    /\ cls_pc = "done" =>
           /\ DOMAIN cls_mastery = SessionIds
           /\ \A q \in DOMAIN cls_mastery : cls_mastery[q].attempt_count = 1
           /\ mastered_questions = {}

\* a submitted session with a right answer and a viewed right answer
Witness_C27 ==
    /\ cls_pc = "done"
    /\ Len(questions) = 2
    /\ IsCorrectAtSubmit(0)
    /\ cls_mastery["1"].correct_rate = One
    /\ 1 \in viewed_answers
    /\ 1 \in DOMAIN user_answers
    /\ user_answers[1] = Strip(questions[2])
    /\ cls_mastery["2"].correct_rate = 0


(* ------------------------------- C28 ---------------------------------- *)

\* the number of history files that answer question number n right
RightAttempts(n) ==
    Cardinality({i \in DOMAIN history_files :
                    RightAnswersFor(history_files[i], n - 1) # {}})

\* C28: after _update_progress, mastered is a subset of done, unmastered
\* is done minus mastered, undone is all minus done, the counts satisfy
\* mastered + unmastered = done and done + undone = total, and every
\* mastered question has mastery_probability > 0.7, correct_rate > 0.6 and
\* at least 6 correct attempts
Thm_C28 ==
    prog_pc = "done" =>
        /\ mastered_indices \subseteq done_indices
        /\ unmastered_indices = done_indices \ mastered_indices
        /\ undone_indices = (1..Len(Bank)) \ done_indices
        /\ progress.total = Len(Bank)
        /\ progress.mastered = Cardinality(mastered_indices)
        /\ progress.done = Cardinality(done_indices)
        /\ progress.mastered + progress.unmastered = progress.done
        /\ progress.done + progress.undone = progress.total
        /\ \A n \in mastered_indices :
               /\ prog_mastery[StrOf(n)].mastery_probability > Dec(7, 10)
               /\ prog_mastery[StrOf(n)].correct_rate > Dec(6, 10)
               /\ RightAttempts(n) >= 6

\* a history of seven files: question 1 answered right in six of them and
\* mastered, question 2 answered once and not mastered
Witness_C28 ==
    /\ prog_pc = "done"
    /\ Len(history_files) = MaxHistory
    /\ mastered_indices = {1}
    /\ RightAttempts(1) = 6
    /\ prog_mastery["1"].attempt_count = 7
    /\ unmastered_indices = {2}


(* ------------------------------- C29 ---------------------------------- *)

\* C29 as stated: the returned list holds at most num_questions ids and no
\* id twice, whatever the histories and the cluster assignment, and every
\* question with an incorrect attempt or a review that is due is a candidate
Orig_C29 ==
    qp_pc = "done" =>
        /\ Len(qp_result) <= qp_num
        /\ \A i, j \in DOMAIN qp_result : qp_result[i] = qp_result[j] => i = j
        /\ \A q \in DOMAIN qp_answers :
               (\E j \in DOMAIN qp_answers[q] : ~qp_answers[q][j].is_correct)
                   => q \in qp_candidates
        /\ \A q \in DOMAIN qp_reviews :
               qp_reviews[q].next_review_time <= QPNow => q \in qp_candidates

====
